---- MODULE Spec2Model ----
(***************************************************************************)
(* Model of the copper-substrate footprint core: the component descriptor  *)
(* (BoardComposableObject), the courtyard derivation (Courtyard) and the   *)
(* KiCad footprint serializer (to_kicad_footprint), and of the layer stack *)
(* of the graphics crate (PcbStackRenderer).                               *)
(*                                                                         *)
(* f32 values are pairs <<m, e>> standing for m * 2^e, with m = 0 (and     *)
(* e = 0) or 2^23 <= |m| < 2^24, so that f32 arithmetic rounds as the      *)
(* program's does.  An output document is a sequence of lines; a line is   *)
(* the sequence of the text pieces the format string and its arguments     *)
(* contribute, in order (the line's text is their concatenation).          *)
(***************************************************************************)
EXTENDS Integers, Sequences, FiniteSets, TLC

VARIABLES
    comp,        \* the component descriptor handed to the serializer
    out,         \* the document returned by the last to_kicad_footprint call
    prev,        \* the document returned by the call before that
    ncalls,      \* number of to_kicad_footprint calls made
    uuid_state,  \* number of v4 tokens the process has generated so far
    cy_args,     \* the arguments of the Courtyard::new call, once made
    cy,          \* the Courtyard constructed (None before construction)
    elems,       \* the list returned by the last to_graphic_elements call
    issued,      \* identity tokens returned by earlier to_graphic_elements calls
    tcalls,      \* number of to_graphic_elements calls made
    threads,     \* per thread of control: its descriptor, position and String
    renderer,    \* the PcbStackRenderer (None before construction)
    stack_log    \* the layers passed to add_layer since the last clear, and
                 \* whether center_stack was called after the last of them

vars == <<comp, out, prev, ncalls, uuid_state, cy_args, cy, elems, issued, tcalls,
          threads, renderer, stack_log>>

-----------------------------------------------------------------------------
(* Bounds of the model *)

\* total number of pads, texts and graphics a descriptor declares
MaxElems == 2

\* number of calls of to_kicad_footprint / to_graphic_elements explored
MaxCalls == 2
\* layers in a stack
MaxLayers == 3

-----------------------------------------------------------------------------
(* Option<T> *)

None == <<>>
Some(x) == <<x>>
IsSome(o) == Len(o) = 1
Unwrap(o) == o[1]

-----------------------------------------------------------------------------
(* f32: IEEE-754 binary32, round to nearest, ties to even *)

Abs(n) == IF n < 0 THEN -n ELSE n
Sign(n) == IF n < 0 THEN -1 ELSE 1

RECURSIVE Pow2(_)
Pow2(k) == IF k = 0 THEN 1 ELSE 2 * Pow2(k - 1)

Two23 == Pow2(23)
Two24 == Pow2(24)

\* the least k with a \div 2^k < 2^24
RECURSIVE ShiftFor(_, _)
ShiftFor(a, k) == IF a \div Pow2(k) < Two24 THEN k ELSE ShiftFor(a, k + 1)

\* the f32 nearest to sign * a * 2^e (a >= 0)
RECURSIVE F32Normalize(_, _, _)
F32Normalize(sign, a, e) ==
    IF a = 0 THEN <<0, 0>>
    ELSE IF a < Two23 THEN F32Normalize(sign, 2 * a, e - 1)
    ELSE IF a < Two24 THEN <<sign * a, e>>
    ELSE LET k == ShiftFor(a, 1)
             u == Pow2(k)
             q == a \div u
             r == a % u
             up == (2 * r > u) \/ (2 * r = u /\ q % 2 = 1)
             q1 == IF up THEN q + 1 ELSE q
         IN  IF q1 = Two24 THEN <<sign * Two23, e + k + 1>>
             ELSE <<sign * q1, e + k>>

\* the decimal literal s of the source, as the f32 the compiler makes of it
F32Lit(s) ==
    CASE s = "0" -> <<0, 0>>
      [] s = "1" -> <<8388608, -23>>
      [] s = "-1" -> <<-8388608, -23>>
      [] s = "0.625" -> <<10485760, -24>>
      [] s = "-0.625" -> <<-10485760, -24>>
      [] s = "0.5" -> <<8388608, -24>>
      [] s = "-0.5" -> <<-8388608, -24>>
      [] s = "0.25" -> <<8388608, -25>>
      [] s = "-0.25" -> <<-8388608, -25>>
      [] s = "0.41" -> <<13757317, -25>>
      [] s = "0.05" -> <<13421773, -28>>
      [] s = "-0.95" -> <<-15938355, -24>>
      [] s = "0.95" -> <<15938355, -24>>
      [] s = "1.45" -> <<12163482, -23>>
      [] s = "-1.16" -> <<-9730785, -23>>
      [] s = "1.16" -> <<9730785, -23>>
      [] s = "0.15" -> <<10066330, -26>>
      [] s = "0.04" -> <<10737418, -28>>
      [] s = "0.12" -> <<16106127, -27>>
      [] s = "0.1" -> <<13421773, -27>>
      [] s = "90" -> <<11796480, -17>>
      [] s = "0.8" -> <<13421773, -24>>
      [] s = "1.6" -> <<13421773, -23>>
      [] s = "2" -> <<8388608, -22>>
      [] s = "-0.107836" -> <<-14473503, -27>>
      [] s = "0.107836" -> <<14473503, -27>>
      [] s = "-0.36" -> <<-12079596, -25>>
      [] s = "0.36" -> <<12079596, -25>>
      [] s = "0.91" -> <<15267267, -24>>
      [] s = "-0.91" -> <<-15267267, -24>>
      [] s = "0.66" -> <<11072963, -24>>
      [] s = "-0.66" -> <<-11072963, -24>>
      [] s = "1.25" -> <<10485760, -23>>
      [] s = "-1.25" -> <<-10485760, -23>>
      [] s = "0.875" -> <<14680064, -24>>
      [] s = "-0.875" -> <<-14680064, -24>>
      [] s = "0.75" -> <<12582912, -24>>
      [] s = "-0.75" -> <<-12582912, -24>>
      [] s = "0.125" -> <<8388608, -26>>
      [] s = "-0.125" -> <<-8388608, -26>>
      [] s = "0.025" -> <<13421773, -29>>
      [] s = "0.035" -> <<9395241, -28>>
      [] s = "1.2" -> <<10066330, -23>>
      [] s = "50" -> <<13107200, -18>>
      [] s = "0.2" -> <<13421773, -26>>

f32_neg(x) == <<-x[1], x[2]>>

\* x + y on f32: the smaller operand is aligned to the larger one's exponent
\* with three extra bits (guard, round, sticky), then the sum is rounded
f32_add(x, y) ==
    IF x[1] = 0 THEN y
    ELSE IF y[1] = 0 THEN x
    ELSE LET big == IF x[2] >= y[2] THEN x ELSE y
             small == IF x[2] >= y[2] THEN y ELSE x
             d == big[2] - small[2]
             s8 == Abs(small[1]) * 8
             q == IF d > 27 THEN 0 ELSE s8 \div Pow2(d)
             sticky == IF d > 27 THEN TRUE ELSE s8 % Pow2(d) # 0
             s == IF sticky /\ q % 2 = 0 THEN q + 1 ELSE q
             t == big[1] * 8 + Sign(small[1]) * s
         IN  F32Normalize(Sign(t), Abs(t), big[2] - 3)

f32_sub(x, y) == f32_add(x, f32_neg(y))

\* x < y on f32
f32_lt(x, y) == f32_sub(x, y)[1] < 0

\* x / 2.0 on f32: exact, one off the exponent
f32_div_2(x) == IF x[1] = 0 THEN x ELSE <<x[1], x[2] - 1>>

\* the text `{}` gives an f32: the shortest decimal that reads back as it
Display(x) ==
    CASE x = <<-12582912, -23>> -> "-1.5"
      [] x = <<-11827937, -23>> -> "-1.41"
      [] x = <<-10485760, -23>> -> "-1.25"
      [] x = <<-9730785, -23>> -> "-1.16"
      [] x = <<-9437184, -23>> -> "-1.125"
      [] x = <<-8682209, -23>> -> "-1.035"
      [] x = <<-8388608, -23>> -> "-1"
      [] x = <<-15938355, -24>> -> "-0.95"
      [] x = <<-15267267, -24>> -> "-0.91"
      [] x = <<-15267266, -24>> -> "-0.90999997"
      [] x = <<-14680064, -24>> -> "-0.875"
      [] x = <<-12582912, -24>> -> "-0.75"
      [] x = <<-11072963, -24>> -> "-0.66"
      [] x = <<-11072962, -24>> -> "-0.65999997"
      [] x = <<-10485760, -24>> -> "-0.625"
      [] x = <<-9898558, -24>> -> "-0.59000003"
      [] x = <<-8388608, -24>> -> "-0.5"
      [] x = <<-13757317, -25>> -> "-0.41"
      [] x = <<-12582912, -25>> -> "-0.375"
      [] x = <<-12079596, -25>> -> "-0.36"
      [] x = <<-8388608, -25>> -> "-0.25"
      [] x = <<-14428406, -26>> -> "-0.215"
      [] x = <<-10737418, -26>> -> "-0.16"
      [] x = <<-8388608, -26>> -> "-0.125"
      [] x = <<-14473503, -27>> -> "-0.107836"
      [] x = <<-12079596, -27>> -> "-0.09"
      [] x = <<0, 0>> -> "0"
      [] x = <<10737418, -28>> -> "0.04"
      [] x = <<13421773, -28>> -> "0.05"
      [] x = <<12079596, -27>> -> "0.09"
      [] x = <<13421773, -27>> -> "0.1"
      [] x = <<14473503, -27>> -> "0.107836"
      [] x = <<16106127, -27>> -> "0.12"
      [] x = <<8388608, -26>> -> "0.125"
      [] x = <<10066330, -26>> -> "0.15"
      [] x = <<10737418, -26>> -> "0.16"
      [] x = <<14428406, -26>> -> "0.215"
      [] x = <<8388608, -25>> -> "0.25"
      [] x = <<12079596, -25>> -> "0.36"
      [] x = <<12582912, -25>> -> "0.375"
      [] x = <<13757317, -25>> -> "0.41"
      [] x = <<8388608, -24>> -> "0.5"
      [] x = <<9898558, -24>> -> "0.59000003"
      [] x = <<10485760, -24>> -> "0.625"
      [] x = <<11072962, -24>> -> "0.65999997"
      [] x = <<11072963, -24>> -> "0.66"
      [] x = <<12582912, -24>> -> "0.75"
      [] x = <<13421773, -24>> -> "0.8"
      [] x = <<14680064, -24>> -> "0.875"
      [] x = <<15267266, -24>> -> "0.90999997"
      [] x = <<15267267, -24>> -> "0.91"
      [] x = <<15938355, -24>> -> "0.95"
      [] x = <<8388608, -23>> -> "1"
      [] x = <<8682209, -23>> -> "1.035"
      [] x = <<9437184, -23>> -> "1.125"
      [] x = <<9730785, -23>> -> "1.16"
      [] x = <<10485760, -23>> -> "1.25"
      [] x = <<11827937, -23>> -> "1.41"
      [] x = <<12163482, -23>> -> "1.45"
      [] x = <<12582912, -23>> -> "1.5"
      [] x = <<13421773, -23>> -> "1.6"
      [] x = <<8388608, -22>> -> "2"
      [] x = <<11796480, -17>> -> "90"

-----------------------------------------------------------------------------
(* Taxonomy enums and geometry *)

\* the fabrication layer written under the silkscreen's name
to_kicad_string_fab_as_silk(layer) ==
    CASE layer = "SilkScreen" -> "F.SilkS"
      [] layer = "Courtyard" -> "F.CrtYd"
      [] layer = "Fabrication" -> "F.SilkS"
      [] layer = "Copper" -> "F.Cu"
      [] layer = "Mask" -> "F.Mask"
      [] layer = "Paste" -> "F.Paste"

\* LayerType::to_kicad_string
to_kicad_string(layer) ==
    CASE layer = "SilkScreen" -> "F.SilkS"
      [] layer = "Courtyard" -> "F.CrtYd"
      [] layer = "Fabrication" -> "F.Fab"
      [] layer = "Copper" -> "F.Cu"
      [] layer = "Mask" -> "F.Mask"
      [] layer = "Paste" -> "F.Paste"

Rectangle(x0, y0, x1, y1) == [min_x |-> x0, min_y |-> y0, max_x |-> x1, max_y |-> y1]

Stroke(w, t) == [width |-> w, stroke_type |-> t]

Line(s, e) == [kind |-> "Line", start |-> s, end |-> e]

GraphicElement(ty, layer, stroke, uuid) ==
    [element_type |-> ty, layer |-> layer, stroke |-> stroke, uuid |-> uuid]

-----------------------------------------------------------------------------
(* Identity tokens: Uuid::new_v4() draws a token no earlier draw of the    *)
(* process returned; rng is the number of tokens drawn so far.             *)

Uuid_new_v4(rng) == rng + 1

Uuid_to_string(u) == "uuid-v4-" \o ToString(u)

-----------------------------------------------------------------------------
(* Courtyard *)

\* Courtyard::new
Courtyard_new(bounds, margin) ==
    [bounds |-> Rectangle(f32_sub(bounds.min_x, margin),
                          f32_sub(bounds.min_y, margin),
                          f32_add(bounds.max_x, margin),
                          f32_add(bounds.max_y, margin)),
     margin |-> margin,
     layer |-> "Courtyard"]

\* the k-th edge of the perimeter of self, with the identity token uuid
CourtyardEdge(self, k, uuid) ==
    LET b == self.bounds
        corners == << <<b.min_x, b.min_y>>, <<b.max_x, b.min_y>>,
                      <<b.max_x, b.max_y>>, <<b.min_x, b.max_y>> >>
    IN  GraphicElement(Line(corners[k], corners[(k % 4) + 1]), self.layer,
                       Stroke(F32Lit("0.05"), "Solid"), uuid)

\* edges of zero length left out
to_graphic_elements_skip_degenerate(self, rng) ==
    SelectSeq([k \in 1..4 |->
                  CourtyardEdge(self, k, Uuid_to_string(Uuid_new_v4(rng + k - 1)))],
              LAMBDA el : el.element_type.start # el.element_type.end)

\* the perimeter traced the other way round, from the same first corner
to_graphic_elements_reversed(self, rng) ==
    [k \in 1..4 |->
        LET el == CourtyardEdge(self, 5 - k, Uuid_to_string(Uuid_new_v4(rng + k - 1)))
        IN  [el EXCEPT !.element_type =
                Line(el.element_type.end, el.element_type.start)]]

\* one token drawn per call and shared by the four lines
to_graphic_elements_one_token(self, rng) ==
    [k \in 1..4 |-> CourtyardEdge(self, k, Uuid_to_string(Uuid_new_v4(rng)))]

\* the fourth line drawn back along the third instead of to the first corner
to_graphic_elements_open_loop(self, rng) ==
    [k \in 1..4 |->
        LET el == CourtyardEdge(self, k, Uuid_to_string(Uuid_new_v4(rng + k - 1)))
        IN  IF k = 4
            THEN [el EXCEPT !.element_type =
                     Line(<<self.bounds.min_x, self.bounds.max_y>>,
                          <<self.bounds.max_x, self.bounds.max_y>>)]
            ELSE el]

\* Courtyard::to_graphic_elements; the four tokens are drawn in list order
to_graphic_elements(self, rng) ==
    << GraphicElement(Line(<<self.bounds.min_x, self.bounds.min_y>>,
                           <<self.bounds.max_x, self.bounds.min_y>>),
                      self.layer, Stroke(F32Lit("0.05"), "Solid"),
                      Uuid_to_string(Uuid_new_v4(rng))),
       GraphicElement(Line(<<self.bounds.max_x, self.bounds.min_y>>,
                           <<self.bounds.max_x, self.bounds.max_y>>),
                      self.layer, Stroke(F32Lit("0.05"), "Solid"),
                      Uuid_to_string(Uuid_new_v4(rng + 1))),
       GraphicElement(Line(<<self.bounds.max_x, self.bounds.max_y>>,
                           <<self.bounds.min_x, self.bounds.max_y>>),
                      self.layer, Stroke(F32Lit("0.05"), "Solid"),
                      Uuid_to_string(Uuid_new_v4(rng + 2))),
       GraphicElement(Line(<<self.bounds.min_x, self.bounds.max_y>>,
                           <<self.bounds.min_x, self.bounds.min_y>>),
                      self.layer, Stroke(F32Lit("0.05"), "Solid"),
                      Uuid_to_string(Uuid_new_v4(rng + 3))) >>

\* the k-th line of Courtyard::to_graphic_elements, built when the generator
\* is in state rng: the k-th line of a call that started k - 1 draws earlier
courtyard_line(self, k, rng) == to_graphic_elements(self, rng - (k - 1))[k]

-----------------------------------------------------------------------------
(* Component descriptor (BoardComposableObject) and its value types *)

FontSettings(sx, sy, th) == [size |-> <<sx, sy>>, thickness |-> th]

FpText(ty, text, pos, rotation, layer, uuid, font) ==
    [text_type |-> ty, text |-> text, position |-> pos, rotation |-> rotation,
     layer |-> layer, uuid |-> uuid, font |-> font]

TentingSettings(f, b) == [front |-> f, back |-> b]

PadDescriptor(number, ty, shape, pos, size, drill, layers, ratio, tenting, uuid) ==
    [number |-> number, pad_type |-> ty, shape |-> shape, position |-> pos,
     size |-> size, drill_size |-> drill, layers |-> layers,
     roundrect_ratio |-> ratio, tenting |-> tenting, uuid |-> uuid]

Model3D(path, offset, scale, rotation) ==
    [path |-> path, offset |-> offset, scale |-> scale, rotation |-> rotation]

\* BoardComposableObject::courtyard_margin, the default the trait provides
default_courtyard_margin == F32Lit("0.25")

\* a courtyard drawn on the bounding box itself, the margin left out
generate_courtyard_without_margin(self) ==
    IF IsSome(self.courtyard_impl)
    THEN Unwrap(self.courtyard_impl)
    ELSE LET bbox == self.bounding_box
         IN  Courtyard_new(bbox, F32Lit("0"))

\* BoardComposableObject::generate_courtyard: a provided method of the
\* trait, which an implementation may replace by its own (courtyard_impl is
\* what the implementation's method returns, None when it keeps the
\* provided one)
generate_courtyard(self) ==
    IF IsSome(self.courtyard_impl)
    THEN Unwrap(self.courtyard_impl)
    ELSE LET bbox == self.bounding_box
         IN  Courtyard_new(bbox, self.courtyard_margin)

\* the elements an accessor builds when it is called with the generator in
\* state rng: an implementation that keeps its tokens returns them as they
\* are, one that stamps every element with Uuid::new_v4().to_string() on
\* each call (as examples/resistor.rs does) returns them with the next
\* tokens, drawn in list order
FreshlyStamped(self, elements, rng) ==
    IF self.fresh_tokens
    THEN [k \in 1..Len(elements) |->
             [elements[k] EXCEPT !.uuid = Uuid_to_string(Uuid_new_v4(rng + k - 1))]]
    ELSE elements

\* the number of tokens such a call draws
Drawn(self, elements) == IF self.fresh_tokens THEN Len(elements) ELSE 0

\* BoardComposableObject::pad_descriptors
pad_descriptors(self, rng) == FreshlyStamped(self, self.pad_descriptors, rng)

\* BoardComposableObject::fp_text_elements
fp_text_elements(self, rng) == FreshlyStamped(self, self.fp_text_elements, rng)

\* BoardComposableObject::graphic_elements
graphic_elements(self, rng) == FreshlyStamped(self, self.graphic_elements, rng)

-----------------------------------------------------------------------------
(* KiCad footprint serializer *)

\* an absent rotation written as 0, the way write_property writes it
write_fp_text_zero_rotation(fp_text) ==
    LET text_type_str ==
            CASE fp_text.text_type = "Reference" -> "reference"
              [] fp_text.text_type = "Value" -> "value"
              [] fp_text.text_type = "User" -> "user"
        at == IF IsSome(fp_text.rotation)
              THEN <<" (at ", Display(fp_text.position[1]), " ",
                     Display(fp_text.position[2]), " ",
                     Display(Unwrap(fp_text.rotation)), ")">>
              ELSE <<" (at ", Display(fp_text.position[1]), " ",
                     Display(fp_text.position[2]), " 0)">>
    IN  << <<"\t(fp_text ", text_type_str, " \"", fp_text.text, "\"">> \o at
              \o <<" (layer \"", fp_text.layer, "\")">>,
           <<"\t\t(effects (font (size ", Display(fp_text.font.size[1]), " ",
             Display(fp_text.font.size[2]), ") (thickness ",
             Display(fp_text.font.thickness), ")))">>,
           <<"\t\t(tstamp \"", fp_text.uuid, "\")">>,
           <<"\t)">> >>

\* write_fp_text
write_fp_text(fp_text) ==
    LET text_type_str ==
            CASE fp_text.text_type = "Reference" -> "reference"
              [] fp_text.text_type = "Value" -> "value"
              [] fp_text.text_type = "User" -> "user"
        at == IF IsSome(fp_text.rotation)
              THEN <<" (at ", Display(fp_text.position[1]), " ",
                     Display(fp_text.position[2]), " ",
                     Display(Unwrap(fp_text.rotation)), ")">>
              ELSE <<" (at ", Display(fp_text.position[1]), " ",
                     Display(fp_text.position[2]), ")">>
    IN  << <<"\t(fp_text ", text_type_str, " \"", fp_text.text, "\"">> \o at
              \o <<" (layer \"", fp_text.layer, "\")">>,
           <<"\t\t(effects (font (size ", Display(fp_text.font.size[1]), " ",
             Display(fp_text.font.size[2]), ") (thickness ",
             Display(fp_text.font.thickness), ")))">>,
           <<"\t\t(tstamp \"", fp_text.uuid, "\")">>,
           <<"\t)">> >>

\* the ten lines of an fp_line block
FpLineBlock(start, end, element) ==
    << <<"\t(fp_line">>,
       <<"\t\t(start ", Display(start[1]), " ", Display(start[2]), ")">>,
       <<"\t\t(end ", Display(end[1]), " ", Display(end[2]), ")">>,
       <<"\t\t(stroke">>,
       <<"\t\t\t(width ", Display(element.stroke.width), ")">>,
       <<"\t\t\t(type solid)">>,
       <<"\t\t)">>,
       <<"\t\t(layer \"", to_kicad_string(element.layer), "\")">>,
       <<"\t\t(tstamp \"", element.uuid, "\")">>,
       <<"\t)">> >>

\* a Rectangle written as the line between its two corners
write_graphic_element_rect(element) ==
    CASE element.element_type.kind = "Line" ->
             FpLineBlock(element.element_type.start, element.element_type.end, element)
      [] element.element_type.kind = "Rectangle" ->
             FpLineBlock(<<element.element_type.bounds.min_x,
                           element.element_type.bounds.min_y>>,
                         <<element.element_type.bounds.max_x,
                           element.element_type.bounds.max_y>>, element)
      [] OTHER -> <<>>

\* write_graphic_element
write_graphic_element(element) ==
    IF element.element_type.kind = "Line"
    THEN << <<"\t(fp_line">>,
            <<"\t\t(start ", Display(element.element_type.start[1]), " ",
              Display(element.element_type.start[2]), ")">>,
            <<"\t\t(end ", Display(element.element_type.end[1]), " ",
              Display(element.element_type.end[2]), ")">>,
            <<"\t\t(stroke">>,
            <<"\t\t\t(width ", Display(element.stroke.width), ")">>,
            <<"\t\t\t(type solid)">>,
            <<"\t\t)">>,
            <<"\t\t(layer \"", to_kicad_string(element.layer), "\")">>,
            <<"\t\t(tstamp \"", element.uuid, "\")">>,
            <<"\t)">> >>
    ELSE <<>>

RECURSIVE LayerNames(_)
\* the quoted layer names of a pad, each preceded by a space
LayerNames(layers) ==
    IF layers = <<>> THEN <<>>
    ELSE <<" \"", Head(layers), "\"">> \o LayerNames(Tail(layers))

\* the ratio written for round-rectangle pads only
write_detailed_pad_by_shape(pad) ==
    LET pad_type_str ==
            CASE pad.pad_type = "SMD" -> "smd"
              [] pad.pad_type = "ThroughHole" -> "thru_hole"
              [] pad.pad_type = "NPTH" -> "np_thru_hole"
        shape_str ==
            CASE pad.shape = "RoundRect" -> "roundrect"
              [] pad.shape = "Rect" -> "rect"
              [] pad.shape = "Circle" -> "circle"
              [] pad.shape = "Oval" -> "oval"
        ratio == IF pad.shape = "RoundRect" /\ IsSome(pad.roundrect_ratio)
                 THEN << <<"\t\t(roundrect_rratio ",
                           Display(Unwrap(pad.roundrect_ratio)), ")">> >>
                 ELSE <<>>
    IN  << <<"\t(pad \"", pad.number, "\" ", pad_type_str, " ", shape_str>>,
           <<"\t\t(at ", Display(pad.position[1]), " ", Display(pad.position[2]), ")">>,
           <<"\t\t(size ", Display(pad.size[1]), " ", Display(pad.size[2]), ")">>,
           <<"\t\t(layers">> \o LayerNames(pad.layers) \o <<")">> >>
        \o ratio
        \o << <<"\t\t(tstamp \"", pad.uuid, "\")">>,
              <<"\t)">> >>

\* write_detailed_pad
write_detailed_pad(pad) ==
    LET pad_type_str ==
            CASE pad.pad_type = "SMD" -> "smd"
              [] pad.pad_type = "ThroughHole" -> "thru_hole"
              [] pad.pad_type = "NPTH" -> "np_thru_hole"
        shape_str ==
            CASE pad.shape = "RoundRect" -> "roundrect"
              [] pad.shape = "Rect" -> "rect"
              [] pad.shape = "Circle" -> "circle"
              [] pad.shape = "Oval" -> "oval"
        ratio == IF IsSome(pad.roundrect_ratio)
                 THEN << <<"\t\t(roundrect_rratio ",
                           Display(Unwrap(pad.roundrect_ratio)), ")">> >>
                 ELSE <<>>
    IN  << <<"\t(pad \"", pad.number, "\" ", pad_type_str, " ", shape_str>>,
           <<"\t\t(at ", Display(pad.position[1]), " ", Display(pad.position[2]), ")">>,
           <<"\t\t(size ", Display(pad.size[1]), " ", Display(pad.size[2]), ")">>,
           <<"\t\t(layers">> \o LayerNames(pad.layers) \o <<")">> >>
        \o ratio
        \o << <<"\t\t(tstamp \"", pad.uuid, "\")">>,
              <<"\t)">> >>

\* an `xyz` line whose expression is left open
XyzLine_unclosed(v) ==
    <<"\t\t\t(xyz ", Display(v[1]), " ", Display(v[2]), " ", Display(v[3])>>

\* the `xyz` line of a 3-D model sub-block
XyzLine(v) ==
    <<"\t\t\t(xyz ", Display(v[1]), " ", Display(v[2]), " ", Display(v[3]), ")">>

\* the opening expression tagged with the library's name
fp_header_library_name(component) ==
    << <<"(footprint \"", component.library_name, "\"">>,
       <<"\t(version 20250401)">>,
       <<"\t(generator \"custom_pcb_tool\")">>,
       <<"\t(generator_version \"1.0\")">>,
       <<"\t(layer \"F.Cu\")">> >>

\* to_kicad_footprint, "Header"
fp_header(component) ==
    << <<"(footprint \"", component.footprint_name, "\"">>,
       <<"\t(version 20250401)">>,
       <<"\t(generator \"custom_pcb_tool\")">>,
       <<"\t(generator_version \"1.0\")">>,
       <<"\t(layer \"F.Cu\")">> >>

\* to_kicad_footprint, "Description and tags": the description
fp_descr(component) ==
    IF IsSome(component.description)
    THEN << <<"\t(descr \"", Unwrap(component.description), "\")">> >>
    ELSE <<>>

\* an empty tags line written when there are no tags
fp_tags_placeholder(component) ==
    IF IsSome(component.tags)
    THEN << <<"\t(tags \"", Unwrap(component.tags), "\")">> >>
    ELSE << <<"\t(tags \"", "", "\")">> >>

\* to_kicad_footprint, "Description and tags": the tags
fp_tags(component) ==
    IF IsSome(component.tags)
    THEN << <<"\t(tags \"", Unwrap(component.tags), "\")">> >>
    ELSE <<>>

\* the attribute taken from the descriptor's own is_smt() flag
fp_attr_from_flag(component, rng) ==
    IF component.is_smt THEN << <<"\t(attr smd)">> >> ELSE <<>>

\* the attribute decided by the first pad alone
fp_attr_first_pad(component, rng) ==
    LET pads == pad_descriptors(component, rng)
        is_smt == /\ pads # <<>>
                  /\ pads[1].pad_type = "SMD"
    IN  IF is_smt THEN << <<"\t(attr smd)">> >> ELSE <<>>

\* to_kicad_footprint, "Attributes": the smd attribute, from the pads
fp_attr(component, rng) ==
    LET pads == pad_descriptors(component, rng)
        is_smt == \E i \in 1..Len(pads) : pads[i].pad_type = "SMD"
    IN  IF is_smt THEN << <<"\t(attr smd)">> >> ELSE <<>>

\* to_kicad_footprint, "Attributes": the jumper directive
fp_jumpers == << <<"\t(duplicate_pad_numbers_are_jumpers no)">> >>

RECURSIVE WriteTexts(_)
\* for fp_text in ... { write_fp_text(&mut output, &fp_text) }
WriteTexts(texts) ==
    IF texts = <<>> THEN <<>>
    ELSE write_fp_text(Head(texts)) \o WriteTexts(Tail(texts))

\* to_kicad_footprint, "fp_text elements"
fp_texts(component, rng) == WriteTexts(fp_text_elements(component, rng))

RECURSIVE WriteGraphics(_)
\* for element in all_graphics { write_graphic_element(&mut output, &element) }
WriteGraphics(elements) ==
    IF elements = <<>> THEN <<>>
    ELSE write_graphic_element(Head(elements)) \o WriteGraphics(Tail(elements))

\* the courtyard lines put in front of the declared graphics
fp_graphics_courtyard_first(component, rng) ==
    LET declared == graphic_elements(component, rng)
        courtyard == generate_courtyard(component)
        all_graphics == to_graphic_elements(courtyard, rng + Drawn(component, declared))
                            \o declared
    IN  WriteGraphics(all_graphics)

\* no courtyard lines for a courtyard that is not a proper rectangle
fp_graphics_proper_courtyard_only(component, rng) ==
    LET declared == graphic_elements(component, rng)
        courtyard == generate_courtyard(component)
        proper == /\ f32_lt(courtyard.bounds.min_x, courtyard.bounds.max_x)
                  /\ f32_lt(courtyard.bounds.min_y, courtyard.bounds.max_y)
        all_graphics == declared
                            \o (IF proper
                                THEN to_graphic_elements(courtyard,
                                         rng + Drawn(component, declared))
                                ELSE <<>>)
    IN  WriteGraphics(all_graphics)

\* to_kicad_footprint, "Graphic elements (combine user-defined +
\* auto-generated courtyard)": graphic_elements() is called first, the
\* courtyard draws its four tokens after it
fp_graphics(component, rng) ==
    LET declared == graphic_elements(component, rng)
        courtyard == generate_courtyard(component)
        all_graphics == declared
                            \o to_graphic_elements(courtyard,
                                   rng + Drawn(component, declared))
    IN  WriteGraphics(all_graphics)

RECURSIVE WritePads(_)
\* for pad in ... { write_detailed_pad(&mut output, &pad) }
WritePads(pads) ==
    IF pads = <<>> THEN <<>>
    ELSE write_detailed_pad(Head(pads)) \o WritePads(Tail(pads))

RECURSIVE UniqueTokens(_, _)
\* the pads whose token is not among seen, each token taken once
UniqueTokens(pads, seen) ==
    IF pads = <<>> THEN <<>>
    ELSE IF Head(pads).uuid \in seen THEN UniqueTokens(Tail(pads), seen)
    ELSE <<Head(pads)>> \o UniqueTokens(Tail(pads), seen \cup {Head(pads).uuid})

\* one pad block per identity token
fp_pads_unique_tokens(component, rng) ==
    WritePads(UniqueTokens(pad_descriptors(component, rng), {}))

\* to_kicad_footprint, "Pads"
fp_pads(component, rng) == WritePads(pad_descriptors(component, rng))

\* the rotate sub-block written in front of offset and scale
fp_model_rotate_first(component) ==
    IF IsSome(component.model_3d)
    THEN LET model == Unwrap(component.model_3d)
         IN  << <<"\t(model \"", model.path, "\"">>,
                <<"\t\t(rotate">>, XyzLine(model.rotation), <<"\t\t)">>,
                <<"\t\t(offset">>, XyzLine(model.offset), <<"\t\t)">>,
                <<"\t\t(scale">>, XyzLine(model.scale), <<"\t\t)">>,
                <<"\t)">> >>
    ELSE <<>>

\* to_kicad_footprint, "3D model reference"
fp_model(component) ==
    IF IsSome(component.model_3d)
    THEN LET model == Unwrap(component.model_3d)
         IN  << <<"\t(model \"", model.path, "\"">>,
                <<"\t\t(offset">>, XyzLine(model.offset), <<"\t\t)">>,
                <<"\t\t(scale">>, XyzLine(model.scale), <<"\t\t)">>,
                <<"\t\t(rotate">>, XyzLine(model.rotation), <<"\t\t)">>,
                <<"\t)">> >>
    ELSE <<>>

\* to_kicad_footprint, the closing lines
fp_trailer == << <<"\t(embedded_fonts no)">>, <<")">> >>

\* the state of the token generator when a to_kicad_footprint call that
\* started in state rng reaches its texts, its graphics and its pads: the
\* pads are asked for twice, for the attribute and for the pad blocks, and
\* the courtyard draws four tokens
AtTexts(component, rng) == rng + Drawn(component, component.pad_descriptors)
AtGraphics(component, rng) ==
    AtTexts(component, rng) + Drawn(component, component.fp_text_elements)
AtPads(component, rng) ==
    AtGraphics(component, rng) + Drawn(component, component.graphic_elements) + 4

\* the number of tokens one to_kicad_footprint call draws
TokensDrawn(component) ==
    AtPads(component, 0) + Drawn(component, component.pad_descriptors)

\* the pads written before the graphics
to_kicad_footprint_pads_first(component, rng) ==
    fp_header(component) \o fp_descr(component) \o fp_tags(component)
        \o fp_attr(component, rng) \o fp_jumpers
        \o fp_texts(component, AtTexts(component, rng))
        \o fp_pads(component, AtPads(component, rng))
        \o fp_graphics(component, AtGraphics(component, rng))
        \o fp_model(component)
        \o fp_trailer

\* the jumper directive written after the fp_text blocks
to_kicad_footprint_jumpers_late(component, rng) ==
    fp_header(component) \o fp_descr(component) \o fp_tags(component)
        \o fp_attr(component, rng)
        \o fp_texts(component, AtTexts(component, rng))
        \o fp_jumpers
        \o fp_graphics(component, AtGraphics(component, rng))
        \o fp_pads(component, AtPads(component, rng))
        \o fp_model(component)
        \o fp_trailer

\* to_kicad_footprint; rng is the token generator's state at the call
to_kicad_footprint(component, rng) ==
    fp_header(component) \o fp_descr(component) \o fp_tags(component)
        \o fp_attr(component, rng) \o fp_jumpers
        \o fp_texts(component, AtTexts(component, rng))
        \o fp_graphics(component, AtGraphics(component, rng))
        \o fp_pads(component, AtPads(component, rng))
        \o fp_model(component)
        \o fp_trailer

-----------------------------------------------------------------------------
(* 3-D stack of PCB layers (graphics crate) *)

\* a variant of the graphics LayerType with its thickness (the colour has no
\* part in positioning)
StackLayerType(kind, thick) == [kind |-> kind, thickness |-> thick]

\* LayerType::thickness
LayerType_thickness(layer_type) == layer_type.thickness

\* PcbLayer::new
PcbLayer_new(layer_type, width, height, position_y, name) ==
    [layer_type |-> layer_type, width |-> width, height |-> height,
     position_y |-> position_y, name |-> name]

\* PcbStackRenderer::new
PcbStackRenderer_new ==
    [layers |-> <<>>, rendered_layers |-> <<>>, auto_position |-> TRUE]

\* PcbStackRenderer::new_manual
PcbStackRenderer_new_manual ==
    [layers |-> <<>>, rendered_layers |-> <<>>, auto_position |-> FALSE]

RECURSIVE SumFrom(_, _, _)
\* Iterator::sum over the thicknesses of layers k.., acc being the sum so far
SumFrom(layers, k, acc) ==
    IF k > Len(layers) THEN acc
    ELSE SumFrom(layers, k + 1,
                 f32_add(acc, LayerType_thickness(layers[k].layer_type)))

\* PcbStackRenderer::total_height
total_height(self) == SumFrom(self.layers, 1, F32Lit("0"))

\* PcbStackRenderer::layer_count
layer_count(self) == Len(self.layers)

\* every layer placed on top of the stack, the first and manual ones too
add_layer_always_placed(self, layer) ==
    [self EXCEPT !.layers =
        Append(@, [layer EXCEPT !.position_y = SumFrom(self.layers, 1, F32Lit("0"))])]

\* PcbStackRenderer::add_layer
add_layer(self, layer) ==
    LET placed == IF self.auto_position /\ self.layers # <<>>
                  THEN [layer EXCEPT !.position_y = SumFrom(self.layers, 1, F32Lit("0"))]
                  ELSE layer
    IN  [self EXCEPT !.layers = Append(@, placed)]

RECURSIVE add_layers(_, _)
\* PcbStackRenderer::add_layers
add_layers(self, layers) ==
    IF layers = <<>> THEN self
    ELSE add_layers(add_layer(self, Head(layers)), Tail(layers))

\* LayerMeshFactory::create_layer_mesh: the extent of the box of a layer
\* (x from -width/2 to width/2, y around position_y, z from -height/2 to
\* height/2)
create_layer_mesh(layer) ==
    LET thick == LayerType_thickness(layer.layer_type)
        y_pos == layer.position_y
    IN  [x_max |-> f32_div_2(layer.width),
         y_min |-> f32_sub(y_pos, f32_div_2(thick)),
         y_max |-> f32_add(y_pos, f32_div_2(thick)),
         z_max |-> f32_div_2(layer.height)]

\* PcbStackRenderer::build_stack
build_stack(self) ==
    [self EXCEPT !.rendered_layers =
        [i \in 1..Len(self.layers) |-> create_layer_mesh(self.layers[i])]]

\* PcbStackRenderer::clear
clear(self) == [self EXCEPT !.layers = <<>>, !.rendered_layers = <<>>]

RECURSIVE CenterFrom(_, _, _)
\* center_stack, the loop: layers k.. placed from current_y upwards
CenterFrom(layers, k, current_y) ==
    IF k > Len(layers) THEN <<>>
    ELSE LET thick == LayerType_thickness(layers[k].layer_type)
         IN  <<[layers[k] EXCEPT !.position_y = f32_add(current_y, f32_div_2(thick))]>>
                 \o CenterFrom(layers, k + 1, f32_add(current_y, thick))

\* the stack set on Y=0 instead of around it
center_stack_from_zero(self) ==
    [self EXCEPT !.layers = CenterFrom(self.layers, 1, F32Lit("0"))]

\* PcbStackRenderer::center_stack
center_stack(self) ==
    LET offset == f32_div_2(total_height(self))
    IN  [self EXCEPT !.layers = CenterFrom(self.layers, 1, f32_neg(offset))]

\* presets::standard_4_layer_stack, the nine layers it constructs, each at
\* the y_offset the layers before it have added up to (y_offset grows by
\* layer.layer_type.thickness(), the thickness of the layer type the layer
\* has just been constructed with)
standard_4_layer_stack_layers ==
    LET y_offset0 == F32Lit("0")
        solder_mask_top ==
            PcbLayer_new(StackLayerType("SolderMask", F32Lit("0.025")),
                         F32Lit("50"), F32Lit("50"), y_offset0, "Top Solder Mask")
        y_offset1 ==
            f32_add(y_offset0,
                    LayerType_thickness(StackLayerType("SolderMask", F32Lit("0.025"))))
        top_copper ==
            PcbLayer_new(StackLayerType("Copper", F32Lit("0.035")),
                         F32Lit("50"), F32Lit("50"), y_offset1, "Top Copper")
        y_offset2 ==
            f32_add(y_offset1,
                    LayerType_thickness(StackLayerType("Copper", F32Lit("0.035"))))
        prepreg ==
            PcbLayer_new(StackLayerType("Prepreg", F32Lit("0.2")),
                         F32Lit("50"), F32Lit("50"), y_offset2, "Prepreg")
        y_offset3 ==
            f32_add(y_offset2,
                    LayerType_thickness(StackLayerType("Prepreg", F32Lit("0.2"))))
        inner1 ==
            PcbLayer_new(StackLayerType("Copper", F32Lit("0.035")),
                         F32Lit("50"), F32Lit("50"), y_offset3, "Inner 1")
        y_offset4 ==
            f32_add(y_offset3,
                    LayerType_thickness(StackLayerType("Copper", F32Lit("0.035"))))
        core ==
            PcbLayer_new(StackLayerType("Core", F32Lit("1.2")),
                         F32Lit("50"), F32Lit("50"), y_offset4, "Core")
        y_offset5 ==
            f32_add(y_offset4,
                    LayerType_thickness(StackLayerType("Core", F32Lit("1.2"))))
        inner2 ==
            PcbLayer_new(StackLayerType("Copper", F32Lit("0.035")),
                         F32Lit("50"), F32Lit("50"), y_offset5, "Inner 2")
        y_offset6 ==
            f32_add(y_offset5,
                    LayerType_thickness(StackLayerType("Copper", F32Lit("0.035"))))
        prepreg2 ==
            PcbLayer_new(StackLayerType("Prepreg", F32Lit("0.2")),
                         F32Lit("50"), F32Lit("50"), y_offset6, "Prepreg 2")
        y_offset7 ==
            f32_add(y_offset6,
                    LayerType_thickness(StackLayerType("Prepreg", F32Lit("0.2"))))
        bottom_copper ==
            PcbLayer_new(StackLayerType("Copper", F32Lit("0.035")),
                         F32Lit("50"), F32Lit("50"), y_offset7, "Bottom Copper")
        y_offset8 ==
            f32_add(y_offset7,
                    LayerType_thickness(StackLayerType("Copper", F32Lit("0.035"))))
        solder_mask_bottom ==
            PcbLayer_new(StackLayerType("SolderMask", F32Lit("0.025")),
                         F32Lit("50"), F32Lit("50"), y_offset8, "Bottom Solder Mask")
    IN  <<solder_mask_top, top_copper, prepreg, inner1, core, inner2, prepreg2,
          bottom_copper, solder_mask_bottom>>

\* presets::standard_4_layer_stack: a renderer made by new(), each of the
\* nine layers handed to add_layer in turn
standard_4_layer_stack ==
    add_layers(PcbStackRenderer_new, standard_4_layer_stack_layers)

RECURSIVE pcb_stack_layers(_, _, _)
\* pcb_stack!, the layers it constructs from entries k.. (layer type and
\* name; width and height 50), each at the y_offset reached before it
pcb_stack_layers(entries, k, y_offset) ==
    IF k > Len(entries) THEN <<>>
    ELSE LET layer == PcbLayer_new(entries[k][1], F32Lit("50"), F32Lit("50"),
                                   y_offset, entries[k][2])
         IN  <<layer>>
                 \o pcb_stack_layers(entries, k + 1,
                        f32_add(y_offset, LayerType_thickness(layer.layer_type)))

\* pcb_stack!: a renderer made by new(), each layer handed to add_layer
pcb_stack(entries) ==
    add_layers(PcbStackRenderer_new, pcb_stack_layers(entries, 1, F32Lit("0")))

-----------------------------------------------------------------------------
(* Inputs: the values descriptors are built from *)

\* pads: the resistor's first pad; a plated through-hole pad without ratio;
\* an unnumbered NPTH pad that carries a ratio and repeats the first pad's token
PadSMD ==
    PadDescriptor("1", "SMD", "RoundRect", <<F32Lit("-0.95"), F32Lit("0")>>,
                  <<F32Lit("1"), F32Lit("1.45")>>, None,
                  <<"F.Cu", "F.Mask", "F.Paste">>, Some(F32Lit("0.25")),
                  TentingSettings("None", "None"), "uuid-pad-1")
PadTH ==
    PadDescriptor("2", "ThroughHole", "Circle", <<F32Lit("0.95"), F32Lit("0")>>,
                  <<F32Lit("1.6"), F32Lit("1.6")>>, Some(F32Lit("0.8")),
                  <<"*.Cu", "*.Mask">>, None,
                  TentingSettings("Full", "Full"), "uuid-pad-2")
PadNPTH ==
    PadDescriptor("", "NPTH", "Oval", <<F32Lit("0"), F32Lit("0")>>,
                  <<F32Lit("1"), F32Lit("1.45")>>, Some(F32Lit("1")),
                  <<>>, Some(F32Lit("0.25")),
                  TentingSettings("Partial", "None"), "uuid-pad-1")
\* a round-rectangle pad without ratio that repeats the first pad's number
PadBare ==
    PadDescriptor("1", "SMD", "RoundRect", <<F32Lit("0.95"), F32Lit("0")>>,
                  <<F32Lit("1"), F32Lit("1.45")>>, None,
                  <<"F.Cu", "F.Mask", "F.Paste">>, None,
                  TentingSettings("None", "None"), "uuid-pad-3")
PadPool == {PadSMD, PadTH, PadNPTH, PadBare}

TextRef ==
    FpText("Reference", "REF**", <<F32Lit("0"), F32Lit("-1.16")>>, None,
           "F.SilkS", "uuid-text-1", FontSettings(F32Lit("1"), F32Lit("1"), F32Lit("0.15")))
TextValue ==
    FpText("Value", "R_0805_2012Metric", <<F32Lit("0"), F32Lit("1.16")>>,
           Some(F32Lit("90")), "F.Fab", "uuid-text-2",
           FontSettings(F32Lit("1"), F32Lit("1"), F32Lit("0.15")))
TextUser ==
    FpText("User", "${REFERENCE}", <<F32Lit("0"), F32Lit("0")>>, None,
           "F.Fab", "uuid-text-1",
           FontSettings(F32Lit("0.25"), F32Lit("0.25"), F32Lit("0.04")))
TextPool == {TextRef, TextValue, TextUser}

LineSilk ==
    GraphicElement(Line(<<F32Lit("-0.107836"), F32Lit("-0.36")>>,
                        <<F32Lit("0.107836"), F32Lit("-0.36")>>),
                   "SilkScreen", Stroke(F32Lit("0.12"), "Solid"), "uuid-gr-1")
LineCrtYd ==
    GraphicElement(Line(<<F32Lit("-0.5"), F32Lit("-0.25")>>,
                        <<F32Lit("0.5"), F32Lit("-0.25")>>),
                   "Courtyard", Stroke(F32Lit("0.1"), "Dashed"), "uuid-gr-2")
RectFab ==
    GraphicElement([kind |-> "Rectangle",
                    bounds |-> Rectangle(F32Lit("-0.5"), F32Lit("-0.25"),
                                         F32Lit("0.5"), F32Lit("0.25"))],
                   "Fabrication", Stroke(F32Lit("0.1"), "Solid"), "uuid-gr-3")
CircleSilk ==
    GraphicElement([kind |-> "Circle", center |-> <<F32Lit("0"), F32Lit("0")>>,
                    radius |-> F32Lit("0.25")],
                   "SilkScreen", Stroke(F32Lit("0.12"), "Dotted"), "uuid-gr-1")
GraphicPool == {LineSilk, LineCrtYd, RectFab, CircleSilk}

Descriptions ==
    {None, Some("Resistor SMD 0805 (2012 Metric), square (rectangular) end terminal")}
TagsPool == {None, Some("resistor 0805")}
Models ==
    {None,
     Some(Model3D("${KICAD9_3DMODEL_DIR}/Resistor_SMD.3dshapes/R_0805_2012Metric.wrl",
                  <<F32Lit("0"), F32Lit("0"), F32Lit("0")>>,
                  <<F32Lit("1"), F32Lit("1"), F32Lit("1")>>,
                  <<F32Lit("0"), F32Lit("0"), F32Lit("0")>>)),
     Some(Model3D("${KICAD9_3DMODEL_DIR}/Capacitor_SMD.3dshapes/C_0402_1005Metric.wrl",
                  <<F32Lit("0.5"), F32Lit("-0.25"), F32Lit("0.125")>>,
                  <<F32Lit("1"), F32Lit("2"), F32Lit("0.75")>>,
                  <<F32Lit("0"), F32Lit("90"), F32Lit("-1")>>))}

\* the resistor's box with the default margin, the capacitor's with its own,
\* each with the names of its footprint and library
ResistorBox == Rectangle(F32Lit("-1"), F32Lit("-0.625"), F32Lit("1"), F32Lit("0.625"))
CapacitorBox == Rectangle(F32Lit("-0.5"), F32Lit("-0.25"), F32Lit("0.5"), F32Lit("0.25"))
Geometries ==
    {<<ResistorBox, default_courtyard_margin, "R_0805_2012Metric", "Resistor_SMD">>,
     <<CapacitorBox, F32Lit("0.41"), "C_0402_1005Metric", "Capacitor_SMD">>}

\* a descriptor: what each accessor of the trait returns; the lists hold
\* tokens the implementation keeps (fresh_tokens tells an implementation
\* that stamps the elements with new tokens on every call instead)
Descriptor(smt, geo, pads, descr, tags, texts, graphics, model) ==
    [is_smt |-> smt, is_electrical |-> TRUE, is_passive |-> TRUE,
     terminal_count |-> 2, functional_type |-> <<"Resistor", "10k">>,
     footprint_name |-> geo[3], library_name |-> geo[4],
     bounding_box |-> geo[1], pad_descriptors |-> pads,
     description |-> descr, tags |-> tags, fp_text_elements |-> texts,
     graphic_elements |-> graphics, model_3d |-> model,
     courtyard_margin |-> geo[2], courtyard_impl |-> None,
     fresh_tokens |-> FALSE]

\* what an implementation's own generate_courtyard returns: nothing (the
\* provided method is kept) or a courtyard of its choice
CourtyardImpls == {None, Some(Courtyard_new(ResistorBox, F32Lit("0")))}

\* examples/resistor.rs: the second pad of the 0805 resistor
ResistorPad2 ==
    PadDescriptor("2", "SMD", "RoundRect", <<F32Lit("0.95"), F32Lit("0")>>,
                  <<F32Lit("1"), F32Lit("1.45")>>, None,
                  <<"F.Cu", "F.Mask", "F.Paste">>, Some(F32Lit("0.25")),
                  TentingSettings("None", "None"), "uuid-pad-2")

\* examples/resistor.rs: the two-pad 0805 resistor, every accessor as the
\* example implements it (its three texts are unrotated; pad_descriptors()
\* and fp_text_elements() build their elements on every call and stamp each
\* with Uuid::new_v4(), so the tokens written here are never returned; the
\* margin and generate_courtyard are the provided ones)
SMTResistor0805 ==
  [Descriptor(TRUE,
               <<ResistorBox, default_courtyard_margin, "R_0805_2012Metric",
                 "Resistor_SMD">>,
               <<PadSMD, ResistorPad2>>,
               Some("Resistor SMD 0805 (2012 Metric), square (rectangular) end terminal"),
               Some("resistor 0805"),
               <<TextRef, [TextValue EXCEPT !.rotation = None],
                 [TextUser EXCEPT !.uuid = "uuid-text-3"]>>,
               <<>>,
               Some(Model3D("${KICAD9_3DMODEL_DIR}/Resistor_SMD.3dshapes/R_0805_2012Metric.wrl",
                            <<F32Lit("0"), F32Lit("0"), F32Lit("0")>>,
                            <<F32Lit("1"), F32Lit("1"), F32Lit("1")>>,
                            <<F32Lit("0"), F32Lit("0"), F32Lit("0")>>)))
      EXCEPT !.fresh_tokens = TRUE]

\* coordinates and margins the courtyard is constructed from
XCoords == {F32Lit("-1"), F32Lit("-0.5"), F32Lit("0.5"), F32Lit("1")}
YCoords == {F32Lit("-0.625"), F32Lit("-0.25"), F32Lit("0.25"), F32Lit("0.625")}
Margins == {F32Lit("0.25"), F32Lit("0.41"), F32Lit("0"), F32Lit("-0.25"), F32Lit("-0.5")}

-----------------------------------------------------------------------------
(* The serializer called on a descriptor *)

Init ==
    /\ \E np \in 0..MaxElems, nt \in 0..MaxElems, ng \in 0..MaxElems :
          /\ np + nt + ng <= MaxElems
          /\ \E pads \in [1..np -> PadPool], texts \in [1..nt -> TextPool],
                graphics \in [1..ng -> GraphicPool], smt \in BOOLEAN,
                geo \in Geometries, descr \in Descriptions, tags \in TagsPool,
                model \in Models :
                comp = Descriptor(smt, geo, pads, descr, tags, texts, graphics, model)
    /\ out = <<>>
    /\ prev = <<>>
    /\ ncalls = 0
    /\ uuid_state = 0
    /\ cy_args = None
    /\ cy = None
    /\ elems = <<>>
    /\ issued = {}
    /\ tcalls = 0
    /\ threads = <<>>
    /\ renderer = None
    /\ stack_log = [added |-> <<>>, centered |-> FALSE]

\* a call that leaves the courtyard lines in the descriptor's own list
Serialize_extending_descriptor ==
    /\ ncalls < MaxCalls
    /\ out' = to_kicad_footprint(comp, uuid_state)
    /\ prev' = out
    /\ ncalls' = ncalls + 1
    /\ uuid_state' = uuid_state + TokensDrawn(comp)
    /\ comp' = [comp EXCEPT !.graphic_elements =
                    @ \o to_graphic_elements(generate_courtyard(comp),
                             AtPads(comp, uuid_state) - 4)]
    /\ UNCHANGED <<cy_args, cy, elems, issued, tcalls,
                   threads, renderer, stack_log>>

\* one call of to_kicad_footprint(&comp); the courtyard draws four tokens,
\* and the accessors of the descriptor those they stamp their elements with
Serialize ==
    /\ ncalls < MaxCalls
    /\ out' = to_kicad_footprint(comp, uuid_state)
    /\ prev' = out
    /\ ncalls' = ncalls + 1
    /\ uuid_state' = uuid_state + TokensDrawn(comp)
    /\ UNCHANGED <<comp, cy_args, cy, elems, issued, tcalls,
                   threads, renderer, stack_log>>

Next == Serialize

Spec == Init /\ [][Next]_vars

-----------------------------------------------------------------------------
(* The courtyard constructed and rendered on its own *)

\* the identity tokens of a list of graphic elements
Tokens(es) == {es[i].uuid : i \in 1..Len(es)}

CourtyardInit ==
    /\ comp = Descriptor(TRUE, <<ResistorBox, default_courtyard_margin,
                                 "R_0805_2012Metric", "Resistor_SMD">>,
                         <<>>, None, None, <<>>, <<>>, None)
    /\ out = <<>>
    /\ prev = <<>>
    /\ ncalls = 0
    /\ uuid_state = 0
    /\ cy_args = None
    /\ cy = None
    /\ elems = <<>>
    /\ issued = {}
    /\ tcalls = 0
    /\ threads = <<>>
    /\ renderer = None
    /\ stack_log = [added |-> <<>>, centered |-> FALSE]

\* Courtyard::new(bounds, margin)
CourtyardNew ==
    /\ cy = None
    /\ \E x0 \in XCoords, y0 \in YCoords, x1 \in XCoords, y1 \in YCoords,
          margin \in Margins :
          /\ cy_args' = Some([bounds |-> Rectangle(x0, y0, x1, y1), margin |-> margin])
          /\ cy' = Some(Courtyard_new(Rectangle(x0, y0, x1, y1), margin))
    /\ UNCHANGED <<comp, out, prev, ncalls, uuid_state, elems, issued, tcalls,
                   threads, renderer, stack_log>>

\* cy.to_graphic_elements()
ToGraphicElements ==
    /\ IsSome(cy)
    /\ tcalls < MaxCalls
    /\ elems' = to_graphic_elements(Unwrap(cy), uuid_state)
    /\ issued' = issued \cup Tokens(elems)
    /\ uuid_state' = uuid_state + 4
    /\ tcalls' = tcalls + 1
    /\ UNCHANGED <<comp, out, prev, ncalls, cy_args, cy,
                   threads, renderer, stack_log>>

CourtyardNext == CourtyardNew \/ ToGraphicElements

CourtyardSpec == CourtyardInit /\ [][CourtyardNext]_vars

-----------------------------------------------------------------------------
(* A descriptor whose implementation may bring its own generate_courtyard,  *)
(* serialized, asked for its courtyard, and the courtyard rendered          *)

ImplInit ==
    /\ \/ \E geo \in Geometries, impl \in CourtyardImpls, model \in Models,
             lists \in {<< <<>>, <<>>, <<>> >>,
                        << <<PadSMD>>, <<TextValue>>, <<>> >>,
                        << <<PadTH>>, <<>>, <<LineCrtYd>> >>} :
             comp = [Descriptor(TRUE, geo, lists[1], None, None, lists[2], lists[3],
                                model)
                        EXCEPT !.courtyard_impl = impl]
       \/ comp = SMTResistor0805
    /\ out = <<>>
    /\ prev = <<>>
    /\ ncalls = 0
    /\ uuid_state = 0
    /\ cy_args = None
    /\ cy = None
    /\ elems = <<>>
    /\ issued = {}
    /\ tcalls = 0
    /\ threads = <<>>
    /\ renderer = None
    /\ stack_log = [added |-> <<>>, centered |-> FALSE]

\* comp.generate_courtyard()
GenerateCourtyard ==
    /\ cy = None
    /\ cy' = Some(generate_courtyard(comp))
    /\ UNCHANGED <<comp, out, prev, ncalls, uuid_state, cy_args, elems, issued, tcalls,
                   threads, renderer, stack_log>>

ImplNext == Serialize \/ GenerateCourtyard \/ ToGraphicElements

ImplSpec == ImplInit /\ [][ImplNext]_vars

-----------------------------------------------------------------------------
(* The serializer called again and again on a descriptor that its owner     *)
(* changes between the calls: what bounding_box() and courtyard_margin()    *)
(* return changes freely, a pad is removed, a graphic added, the text       *)
(* replaced                                                                 *)

UpstreamInit ==
    /\ \E geo \in Geometries :
          comp = Descriptor(TRUE, geo, <<PadSMD, PadTH>>, None, None, <<TextRef>>,
                            <<>>, None)
    /\ out = <<>>
    /\ prev = <<>>
    /\ ncalls = 0
    /\ uuid_state = 0
    /\ cy_args = None
    /\ cy = None
    /\ elems = <<>>
    /\ issued = {}
    /\ tcalls = 0
    /\ threads = <<>>
    /\ renderer = None
    /\ stack_log = [added |-> <<>>, centered |-> FALSE]

\* the owner changes what bounding_box() returns
SetBoundingBox ==
    /\ \E b \in {ResistorBox, CapacitorBox} :
          /\ b # comp.bounding_box
          /\ comp' = [comp EXCEPT !.bounding_box = b]
    /\ UNCHANGED <<out, prev, ncalls, uuid_state, cy_args, cy, elems, issued, tcalls,
                   threads, renderer, stack_log>>

\* the owner changes what courtyard_margin() returns
SetCourtyardMargin ==
    /\ \E m \in {default_courtyard_margin, F32Lit("0.41")} :
          /\ m # comp.courtyard_margin
          /\ comp' = [comp EXCEPT !.courtyard_margin = m]
    /\ UNCHANGED <<out, prev, ncalls, uuid_state, cy_args, cy, elems, issued, tcalls,
                   threads, renderer, stack_log>>

\* the owner removes the first pad of two
RemovePad ==
    /\ Len(comp.pad_descriptors) = 2
    /\ comp' = [comp EXCEPT !.pad_descriptors = Tail(@)]
    /\ UNCHANGED <<out, prev, ncalls, uuid_state, cy_args, cy, elems, issued, tcalls,
                   threads, renderer, stack_log>>

\* the owner adds a first graphic element
AddGraphic ==
    /\ comp.graphic_elements = <<>>
    /\ comp' = [comp EXCEPT !.graphic_elements = <<LineSilk>>]
    /\ UNCHANGED <<out, prev, ncalls, uuid_state, cy_args, cy, elems, issued, tcalls,
                   threads, renderer, stack_log>>

\* the owner replaces the reference text by the value text
ReplaceText ==
    /\ comp.fp_text_elements = <<TextRef>>
    /\ comp' = [comp EXCEPT !.fp_text_elements = <<TextValue>>]
    /\ UNCHANGED <<out, prev, ncalls, uuid_state, cy_args, cy, elems, issued, tcalls,
                   threads, renderer, stack_log>>

UpstreamNext ==
    \/ Serialize
    \/ SetBoundingBox
    \/ SetCourtyardMargin
    \/ RemovePad
    \/ AddGraphic
    \/ ReplaceText

UpstreamSpec == UpstreamInit /\ [][UpstreamNext]_vars

-----------------------------------------------------------------------------
(* The serializer called on descriptors at the edges of its input domain:   *)
(* every count of pads, texts and graphics from none to MaxElems each, every *)
(* combination of optional sections, boxes with min > max, negative margins *)

\* a box with min > max, and a margin below zero that collapses the box
DegenerateGeometries ==
    {<<Rectangle(F32Lit("1"), F32Lit("0.625"), F32Lit("-1"), F32Lit("-0.625")),
       default_courtyard_margin, "R_0805_2012Metric", "Resistor_SMD">>,
     <<CapacitorBox, F32Lit("-0.5"), "C_0402_1005Metric", "Capacitor_SMD">>}

\* the first n elements of the endless repetition of the sequence pool
Cycle(pool, n) == [k \in 1..n |-> pool[((k - 1) % Len(pool)) + 1]]

EdgeInit ==
    /\ \E np \in 0..MaxElems, nt \in 0..MaxElems, ng \in 0..MaxElems,
          geo \in Geometries \cup DegenerateGeometries,
          descr \in {None, Some("Resistor SMD 0805, square end terminal")},
          tags \in TagsPool,
          model \in {m \in Models : m = None \/ Unwrap(m).scale[2] = F32Lit("1")} :
          comp = Descriptor(TRUE, geo,
                            Cycle(<<PadTH, PadSMD, PadNPTH, PadBare>>, np),
                            descr, tags,
                            Cycle(<<TextRef, TextUser, TextValue>>, nt),
                            Cycle(<<CircleSilk, LineCrtYd, RectFab, LineSilk>>, ng),
                            model)
    /\ out = <<>>
    /\ prev = <<>>
    /\ ncalls = 0
    /\ uuid_state = 0
    /\ cy_args = None
    /\ cy = None
    /\ elems = <<>>
    /\ issued = {}
    /\ tcalls = 0
    /\ threads = <<>>
    /\ renderer = None
    /\ stack_log = [added |-> <<>>, centered |-> FALSE]

EdgeSpec == EdgeInit /\ [][Next]_vars

-----------------------------------------------------------------------------
(* Two threads of control, each serializing a descriptor instance of its    *)
(* own: one to_kicad_footprint call per thread, taken section by section,   *)
(* the sections of the two calls and the single draws of courtyard tokens   *)
(* interleaved in every order.  Each thread writes into the String of its   *)
(* own call; the token generator only promises tokens no one else has got.  *)
(* The descriptors keep the tokens of their elements, so the accessor calls *)
(* draw none and the only draws are the four of each courtyard.             *)

ThreadDescriptors ==
    {Descriptor(TRUE, geo, <<PadSMD>>, None, None, <<TextRef>>, graphics, None) :
        geo \in Geometries, graphics \in {<<>>, <<LineSilk>>}}

ConcurrentInit ==
    /\ comp = Descriptor(TRUE, <<ResistorBox, default_courtyard_margin,
                                 "R_0805_2012Metric", "Resistor_SMD">>,
                         <<>>, None, None, <<>>, <<>>, None)
    /\ out = <<>>
    /\ prev = <<>>
    /\ ncalls = 0
    /\ uuid_state = 0
    /\ cy_args = None
    /\ cy = None
    /\ elems = <<>>
    /\ issued = {}
    /\ tcalls = 0
    /\ \E c1 \in ThreadDescriptors, c2 \in ThreadDescriptors :
          threads = [t \in 1..2 |->
                        [component |-> IF t = 1 THEN c1 ELSE c2, pc |-> "start",
                         output |-> <<>>, all_graphics |-> <<>>]]
    /\ renderer = None
    /\ stack_log = [added |-> <<>>, centered |-> FALSE]

\* lines 117-141: the header, descr, tags, attr and jumper lines
WriteHead(t) ==
    /\ threads[t].pc = "start"
    /\ threads' = [threads EXCEPT ![t].pc = "texts",
                           ![t].output = fp_header(threads[t].component)
                               \o fp_descr(threads[t].component)
                               \o fp_tags(threads[t].component)
                               \o fp_attr(threads[t].component, uuid_state)
                               \o fp_jumpers]
    /\ UNCHANGED <<comp, out, prev, ncalls, uuid_state, cy_args, cy, elems, issued,
                   tcalls, renderer, stack_log>>

\* lines 144-146: the fp_text blocks
WriteTextBlocks(t) ==
    /\ threads[t].pc = "texts"
    /\ threads' = [threads EXCEPT ![t].pc = "courtyard",
                           ![t].output = @ \o fp_texts(threads[t].component, uuid_state)]
    /\ UNCHANGED <<comp, out, prev, ncalls, uuid_state, cy_args, cy, elems, issued,
                   tcalls, renderer, stack_log>>

\* line 149: the declared graphics
CollectGraphics(t) ==
    /\ threads[t].pc = "courtyard"
    /\ threads' = [threads EXCEPT ![t].pc = "lines",
                           ![t].all_graphics =
                               graphic_elements(threads[t].component, uuid_state)]
    /\ UNCHANGED <<comp, out, prev, ncalls, uuid_state, cy_args, cy, elems, issued,
                   tcalls, renderer, stack_log>>

\* lines 150-151, one courtyard line at a time: to_graphic_elements builds
\* its k-th line with a token drawn at that moment (courtyard.rs lines 36,
\* 45, 54 and 63), and the other thread may draw between any two of them;
\* with the fourth line the list is complete
DrawCourtyardLine(t) ==
    /\ threads[t].pc = "lines"
    /\ LET courtyard == generate_courtyard(threads[t].component)
           k == Len(threads[t].all_graphics)
                    - Len(threads[t].component.graphic_elements) + 1
       IN  threads' = [threads EXCEPT
                          ![t].pc = IF k = 4 THEN "graphics" ELSE "lines",
                          ![t].all_graphics =
                              Append(@, courtyard_line(courtyard, k, uuid_state))]
    /\ uuid_state' = Uuid_new_v4(uuid_state)
    /\ UNCHANGED <<comp, out, prev, ncalls, cy_args, cy, elems, issued, tcalls,
                   renderer, stack_log>>

\* lines 153-155: the fp_line blocks
WriteGraphicBlocks(t) ==
    /\ threads[t].pc = "graphics"
    /\ threads' = [threads EXCEPT ![t].pc = "pads",
                           ![t].output = @ \o WriteGraphics(threads[t].all_graphics)]
    /\ UNCHANGED <<comp, out, prev, ncalls, uuid_state, cy_args, cy, elems, issued,
                   tcalls, renderer, stack_log>>

\* lines 158-160: the pad blocks
WritePadBlocks(t) ==
    /\ threads[t].pc = "pads"
    /\ threads' = [threads EXCEPT ![t].pc = "model",
                           ![t].output = @ \o fp_pads(threads[t].component, uuid_state)]
    /\ UNCHANGED <<comp, out, prev, ncalls, uuid_state, cy_args, cy, elems, issued,
                   tcalls, renderer, stack_log>>

\* lines 163-182: the model block and the closing lines; the String is returned
WriteTail(t) ==
    /\ threads[t].pc = "model"
    /\ threads' = [threads EXCEPT ![t].pc = "done",
                           ![t].output = @ \o fp_model(threads[t].component)
                                             \o fp_trailer]
    /\ UNCHANGED <<comp, out, prev, ncalls, uuid_state, cy_args, cy, elems, issued,
                   tcalls, renderer, stack_log>>

ConcurrentNext ==
    \E t \in 1..2 :
        \/ WriteHead(t)
        \/ WriteTextBlocks(t)
        \/ CollectGraphics(t)
        \/ DrawCourtyardLine(t)
        \/ WriteGraphicBlocks(t)
        \/ WritePadBlocks(t)
        \/ WriteTail(t)

ConcurrentSpec == ConcurrentInit /\ [][ConcurrentNext]_vars

-----------------------------------------------------------------------------
(* A stack renderer, empty or made by the preset or by pcb_stack!, built up *)
(* layer by layer or several layers at a time, cleared, centred and         *)
(* rendered.  The renderer changes through its methods only: nothing in the *)
(* repository writes its public field layers or the slice that              *)
(* rendered_layers_mut() hands out.                                         *)

\* presets::standard_4_layer_stack: the solder mask, the copper and the
\* core of the preset, each with the name of its first layer of that type
StackLayerTypes ==
    {<<StackLayerType("SolderMask", F32Lit("0.025")), "Top Solder Mask">>,
     <<StackLayerType("Copper", F32Lit("0.035")), "Top Copper">>,
     <<StackLayerType("Core", F32Lit("1.2")), "Core">>}

\* the position_y a layer is constructed with
GivenPositions == {F32Lit("0"), F32Lit("0.25")}

\* the number of layers handed to one add_layers call
MaxBatch == 2

StackInit ==
    /\ \/ /\ renderer \in {PcbStackRenderer_new, PcbStackRenderer_new_manual}
          /\ stack_log = [added |-> <<>>, centered |-> FALSE]
       \/ /\ renderer = standard_4_layer_stack
          /\ stack_log = [added |-> standard_4_layer_stack_layers,
                          centered |-> FALSE]
       \/ \E n \in 1..MaxLayers :
             \E entries \in [1..n -> StackLayerTypes] :
                /\ renderer = pcb_stack(entries)
                /\ stack_log = [added |-> pcb_stack_layers(entries, 1, F32Lit("0")),
                                centered |-> FALSE]
    /\ comp = Descriptor(TRUE, <<ResistorBox, default_courtyard_margin,
                                 "R_0805_2012Metric", "Resistor_SMD">>,
                         <<>>, None, None, <<>>, <<>>, None)
    /\ out = <<>>
    /\ prev = <<>>
    /\ ncalls = 0
    /\ uuid_state = 0
    /\ cy_args = None
    /\ cy = None
    /\ elems = <<>>
    /\ issued = {}
    /\ tcalls = 0
    /\ threads = <<>>

\* renderer.add_layer(PcbLayer::new(layer_type, 50.0, 50.0, position_y, name))
AddLayer ==
    /\ Len(renderer.layers) < MaxLayers
    /\ \E lt \in StackLayerTypes, y \in GivenPositions :
          LET layer == PcbLayer_new(lt[1], F32Lit("50"), F32Lit("50"), y, lt[2])
          IN  /\ renderer' = add_layer(renderer, layer)
              /\ stack_log' = [added |-> Append(stack_log.added, layer),
                               centered |-> FALSE]
    /\ UNCHANGED <<comp, out, prev, ncalls, uuid_state, cy_args, cy, elems, issued,
                   tcalls, threads>>

\* renderer.add_layers(layers) with up to MaxBatch layers
AddLayers ==
    \E n \in 0..MaxBatch :
        /\ Len(renderer.layers) + n <= MaxLayers
        /\ \E lts \in [1..n -> StackLayerTypes], ys \in [1..n -> GivenPositions] :
              LET layers == [k \in 1..n |->
                                PcbLayer_new(lts[k][1], F32Lit("50"), F32Lit("50"),
                                             ys[k], lts[k][2])]
              IN  /\ renderer' = add_layers(renderer, layers)
                  /\ stack_log' = [added |-> stack_log.added \o layers,
                                   centered |-> stack_log.centered /\ n = 0]
        /\ UNCHANGED <<comp, out, prev, ncalls, uuid_state, cy_args, cy, elems,
                       issued, tcalls, threads>>

\* renderer.clear()
Clear ==
    /\ renderer' = clear(renderer)
    /\ stack_log' = [added |-> <<>>, centered |-> FALSE]
    /\ UNCHANGED <<comp, out, prev, ncalls, uuid_state, cy_args, cy, elems, issued,
                   tcalls, threads>>

\* renderer.center_stack()
CenterStack ==
    /\ renderer' = center_stack(renderer)
    /\ stack_log' = [stack_log EXCEPT !.centered = TRUE]
    /\ UNCHANGED <<comp, out, prev, ncalls, uuid_state, cy_args, cy, elems, issued,
                   tcalls, threads>>

\* renderer.build_stack(context)
BuildStack ==
    /\ renderer' = build_stack(renderer)
    /\ UNCHANGED <<comp, out, prev, ncalls, uuid_state, cy_args, cy, elems, issued,
                   tcalls, threads, stack_log>>

StackNext == AddLayer \/ AddLayers \/ Clear \/ CenterStack \/ BuildStack

StackSpec == StackInit /\ [][StackNext]_vars

-----------------------------------------------------------------------------
(* The serializer called on descriptors that use every variant of the       *)
(* taxonomy enums: one pad, one text and one declared line each             *)

\* the variants of PadType, PadShape, FpTextType and LayerType
PadTypes == {"SMD", "ThroughHole", "NPTH"}
PadShapes == {"Circle", "Rect", "Oval", "RoundRect"}
FpTextTypes == {"Reference", "Value", "User"}
LayerTypes == {"SilkScreen", "Courtyard", "Fabrication", "Copper", "Mask", "Paste"}

KeywordInit ==
    /\ \E ty \in PadTypes, sh \in PadShapes, tt \in FpTextTypes, ly \in LayerTypes :
          comp = Descriptor(TRUE,
                            <<ResistorBox, default_courtyard_margin,
                              "R_0805_2012Metric", "Resistor_SMD">>,
                            <<[PadSMD EXCEPT !.pad_type = ty, !.shape = sh]>>,
                            None, None,
                            <<[TextRef EXCEPT !.text_type = tt]>>,
                            <<[LineSilk EXCEPT !.layer = ly]>>,
                            None)
    /\ out = <<>>
    /\ prev = <<>>
    /\ ncalls = 0
    /\ uuid_state = 0
    /\ cy_args = None
    /\ cy = None
    /\ elems = <<>>
    /\ issued = {}
    /\ tcalls = 0
    /\ threads = <<>>
    /\ renderer = None
    /\ stack_log = [added |-> <<>>, centered |-> FALSE]

KeywordSpec == KeywordInit /\ [][Next]_vars

-----------------------------------------------------------------------------
(* Reading a document: blocks are found by the first piece of their first  *)
(* line; every block of the four kinds ends with the next line "\t)".      *)

FpTextOpen == "\t(fp_text "
FpLineOpen == "\t(fp_line"
PadOpen == "\t(pad \""
ModelOpen == "\t(model \""
BlockClose == <<"\t)">>

\* the indices of the lines of doc whose first piece is tok
Starts(doc, tok) == {i \in 1..Len(doc) : doc[i][1] = tok}

\* the index of the line closing the block opened at line i
BlockEnd(doc, i) ==
    CHOOSE j \in (i + 1)..Len(doc) :
        /\ doc[j] = BlockClose
        /\ \A k \in (i + 1)..(j - 1) : doc[k] # BlockClose

RECURSIVE Ascending(_)
\* the elements of a finite set of integers, in ascending order
Ascending(S) ==
    IF S = {} THEN <<>>
    ELSE LET m == CHOOSE x \in S : \A y \in S : x <= y
         IN  <<m>> \o Ascending(S \ {m})

IsLine(element) == element.element_type.kind = "Line"

HasType(pads, ty) == \E i \in 1..Len(pads) : pads[i].pad_type = ty

-----------------------------------------------------------------------------
(* Claims about the serializer (specification Spec) *)

\* C1: for a fixed descriptor, two successive calls of to_kicad_footprint
\* return byte-identical documents, identity stamps of the courtyard blocks
\* included.  (The descriptor never changes under Spec.)
C1_Determinism == ncalls >= 2 => out = prev

\* C2: in every document the header lines precede all fp_text blocks, every
\* fp_text block precedes every fp_line block, every fp_line block precedes
\* every pad block, every pad block precedes the model block, and the model
\* block precedes the embedded_fonts line and the final closing parenthesis.
C2_SectionOrder ==
    ncalls >= 1 =>
        LET T == Starts(out, FpTextOpen)
            G == Starts(out, FpLineOpen)
            P == Starts(out, PadOpen)
            M == Starts(out, ModelOpen)
            n == Len(out)
        IN  /\ out[1][1] = "(footprint \""
            /\ out[2] = <<"\t(version 20250401)">>
            /\ out[3] = <<"\t(generator \"custom_pcb_tool\")">>
            /\ out[4] = <<"\t(generator_version \"1.0\")">>
            /\ out[5] = <<"\t(layer \"F.Cu\")">>
            /\ \A b \in T \cup G \cup P \cup M : b > 5
            /\ \A t \in T : \A b \in G \cup P \cup M : BlockEnd(out, t) < b
            /\ \A g \in G : \A b \in P \cup M : BlockEnd(out, g) < b
            /\ \A q \in P : \A m \in M : BlockEnd(out, q) < m
            /\ Cardinality(M) <= 1
            /\ \A b \in T \cup G \cup P \cup M : BlockEnd(out, b) < n - 1
            /\ out[n - 1] = <<"\t(embedded_fonts no)">>
            /\ out[n] = <<")">>

\* a document with blocks of all four kinds
C2_Witness ==
    /\ ncalls >= 1
    /\ Starts(out, FpTextOpen) # {}
    /\ Starts(out, FpLineOpen) # {}
    /\ Starts(out, PadOpen) # {}
    /\ Starts(out, ModelOpen) # {}

\* C3: the document contains the line (attr smd) iff pad_descriptors() has
\* at least one pad of type SMD, whatever is_smt() returns.
C3_SmdAttrGating ==
    ncalls >= 1 =>
        ((\E i \in 1..Len(out) : out[i] = <<"\t(attr smd)">>)
            <=> HasType(comp.pad_descriptors, "SMD"))

\* is_smt() is true, the pads are through-hole only, and no line is emitted
C3_Witness ==
    /\ ncalls >= 1
    /\ comp.is_smt
    /\ comp.pad_descriptors # <<>>
    /\ ~HasType(comp.pad_descriptors, "SMD")
    /\ \A i \in 1..Len(out) : out[i] # <<"\t(attr smd)">>

\* the fp_line blocks of doc in document order, each with all its lines
LineBlocks(doc) ==
    LET g == Ascending(Starts(doc, FpLineOpen))
    IN  [k \in 1..Len(g) |-> SubSeq(doc, g[k], BlockEnd(doc, g[k]))]

\* the start and end lines of the fp_line blocks of doc, in document order
LineEnds(doc) ==
    LET b == LineBlocks(doc)
    IN  [k \in 1..Len(b) |-> <<b[k][2], b[k][3]>>]

\* the first line of each pad block of doc, in document order
PadHeads(doc) ==
    LET g == Ascending(Starts(doc, PadOpen))
    IN  [k \in 1..Len(g) |-> doc[g[k]]]

\* C8: the elements of graphic_elements() are rendered first, in descriptor
\* order, and the four courtyard lines after them: the last four fp_line
\* blocks of every document are the courtyard lines on layer "F.CrtYd", in
\* courtyard order.
C8_GraphicsConcatenationOrder ==
    ncalls >= 1 =>
        LET B == LineBlocks(out)
            n == Len(B)
            declared == SelectSeq(comp.graphic_elements, IsLine)
            x0 == Display(f32_sub(comp.bounding_box.min_x, comp.courtyard_margin))
            y0 == Display(f32_sub(comp.bounding_box.min_y, comp.courtyard_margin))
            x1 == Display(f32_add(comp.bounding_box.max_x, comp.courtyard_margin))
            y1 == Display(f32_add(comp.bounding_box.max_y, comp.courtyard_margin))
            corners == << <<x0, y0>>, <<x1, y0>>, <<x1, y1>>, <<x0, y1>>, <<x0, y0>> >>
        IN  /\ n >= 4
            /\ \A k \in 1..4 :
                   /\ B[n - 4 + k][2] =
                          <<"\t\t(start ", corners[k][1], " ", corners[k][2], ")">>
                   /\ B[n - 4 + k][3] =
                          <<"\t\t(end ", corners[k + 1][1], " ", corners[k + 1][2], ")">>
                   /\ B[n - 4 + k][8] = <<"\t\t(layer \"", "F.CrtYd", "\")">>
                   /\ B[n - 4 + k][9] =
                          <<"\t\t(tstamp \"", Uuid_to_string(uuid_state - 4 + k), "\")">>
            /\ [k \in 1..(n - 4) |-> B[k][9]]
                   = [k \in 1..Len(declared) |->
                         <<"\t\t(tstamp \"", declared[k].uuid, "\")">>]

\* the descriptor declares two lines, the first of them on the courtyard layer
C8_Witness ==
    /\ ncalls >= 1
    /\ SelectSeq(comp.graphic_elements, IsLine) = <<LineCrtYd, LineSilk>>
    /\ Len(LineBlocks(out)) = 6

\* C9: a GraphicElement of variant Rectangle or Circle adds nothing to the
\* document and raises no error: the number of fp_line blocks equals the
\* number of Line elements of graphic_elements() plus 4, and the document is
\* the one the descriptor gives with those elements taken out of the list.
C9_UnsupportedGraphicsSkipped ==
    ncalls >= 1 =>
        LET declared == SelectSeq(comp.graphic_elements, IsLine)
        IN  /\ Cardinality(Starts(out, FpLineOpen)) = Len(declared) + 4
            /\ out = to_kicad_footprint([comp EXCEPT !.graphic_elements = declared],
                                        uuid_state - 4)

\* a Rectangle declared in front of a Line: five fp_line blocks
C9_Witness ==
    /\ ncalls >= 1
    /\ comp.graphic_elements = <<RectFab, LineSilk>>
    /\ Cardinality(Starts(out, FpLineOpen)) = 5

\* C10: the document has a descr line iff description() is present and a
\* tags line iff tags() is present, each decided on its own; an absent value
\* gives no line at all; the descr line comes right after the header, the
\* tags line right after it (or after the header when there is no descr
\* line), both before the attribute and jumper directives.
C10_OptionalDescrTags ==
    ncalls >= 1 =>
        LET D == Starts(out, "\t(descr \"")
            Tg == Starts(out, "\t(tags \"")
            A == {i \in 1..Len(out) :
                     out[i] \in {<<"\t(attr smd)">>,
                                 <<"\t(duplicate_pad_numbers_are_jumpers no)">>}}
        IN  /\ (D # {}) <=> IsSome(comp.description)
            /\ (Tg # {}) <=> IsSome(comp.tags)
            /\ IsSome(comp.description) =>
                   /\ D = {6}
                   /\ out[6] = <<"\t(descr \"", Unwrap(comp.description), "\")">>
            /\ IsSome(comp.tags) =>
                   /\ Tg = {6 + Cardinality(D)}
                   /\ out[6 + Cardinality(D)] =
                          <<"\t(tags \"", Unwrap(comp.tags), "\")">>
            /\ \A i \in D \cup Tg : \A j \in A : i < j

\* a description without tags: the descr line is there, no tags line is
C10_Witness ==
    /\ ncalls >= 1
    /\ IsSome(comp.description)
    /\ comp.tags = None
    /\ out[6][1] = "\t(descr \""
    /\ Starts(out, "\t(tags \"") = {}

\* C11: the document has exactly one fp_text block per element of
\* fp_text_elements() and exactly one pad block per element of
\* pad_descriptors(), in the order the descriptor returns them; elements that
\* share a pad number or an identity token are all emitted.
C11_OrderPreservingEmission ==
    ncalls >= 1 =>
        LET t == Ascending(Starts(out, FpTextOpen))
            p == Ascending(Starts(out, PadOpen))
            texts == comp.fp_text_elements
            pads == comp.pad_descriptors
        IN  /\ Len(t) = Len(texts)
            /\ \A k \in 1..Len(t) :
                   /\ out[t[k]][4] = texts[k].text
                   /\ out[BlockEnd(out, t[k]) - 1] =
                          <<"\t\t(tstamp \"", texts[k].uuid, "\")">>
            /\ Len(p) = Len(pads)
            /\ \A k \in 1..Len(p) :
                   /\ out[p[k]][2] = pads[k].number
                   /\ out[BlockEnd(out, p[k]) - 1] =
                          <<"\t\t(tstamp \"", pads[k].uuid, "\")">>

\* two different pads with one identity token, both in the document
C11_Witness ==
    /\ ncalls >= 1
    /\ Len(comp.pad_descriptors) = 2
    /\ comp.pad_descriptors[1] # comp.pad_descriptors[2]
    /\ comp.pad_descriptors[1].uuid = comp.pad_descriptors[2].uuid
    /\ Cardinality(Starts(out, PadOpen)) = 2

\* C12: for every rendered Line element the stroke block carries the
\* element's own stroke width and the type keyword of the element's own
\* stroke type (Solid, Dashed or Dotted): the type line reads "solid" exactly
\* for the elements whose stroke type is Solid.
C12_LineStrokeBlock ==
    ncalls >= 1 =>
        LET B == LineBlocks(out)
            declared == SelectSeq(comp.graphic_elements, IsLine)
        IN  \A k \in 1..Len(declared) :
                /\ B[k][4] = <<"\t\t(stroke">>
                /\ B[k][5] = <<"\t\t\t(width ", Display(declared[k].stroke.width), ")">>
                /\ (B[k][6] = <<"\t\t\t(type solid)">>)
                       <=> (declared[k].stroke.stroke_type = "Solid")
                /\ B[k][7] = <<"\t\t)">>

\* C14: a pad block contains a roundrect_rratio field iff the pad's
\* roundrect_ratio is present, whatever the pad's shape; when present the
\* field is written once, with the pad's ratio, right after the layers list
\* and right before the identity stamp.
C14_RoundrectRatioGating ==
    ncalls >= 1 =>
        LET p == Ascending(Starts(out, PadOpen))
            pads == comp.pad_descriptors
        IN  /\ Len(p) = Len(pads)
            /\ \A k \in 1..Len(p) :
                   LET R == {i \in p[k]..BlockEnd(out, p[k]) :
                                out[i][1] = "\t\t(roundrect_rratio "}
                   IN  /\ (R # {}) <=> IsSome(pads[k].roundrect_ratio)
                       /\ \A i \in R :
                              /\ R = {i}
                              /\ out[i] = <<"\t\t(roundrect_rratio ",
                                            Display(Unwrap(pads[k].roundrect_ratio)),
                                            ")">>
                              /\ out[i - 1][1] = "\t\t(layers"
                              /\ out[i + 1] = <<"\t\t(tstamp \"", pads[k].uuid, "\")">>

\* an oval pad with a ratio, written with it, and a round-rectangle pad
\* without one, written without
C14_Witness ==
    /\ ncalls >= 1
    /\ Len(comp.pad_descriptors) = 2
    /\ comp.pad_descriptors[1].shape = "Oval"
    /\ IsSome(comp.pad_descriptors[1].roundrect_ratio)
    /\ comp.pad_descriptors[2].shape = "RoundRect"
    /\ comp.pad_descriptors[2].roundrect_ratio = None
    /\ Cardinality(Starts(out, "\t\t(roundrect_rratio ")) = 1

\* C15: the position field of an fp_text block has the three components
\* x, y, rotation iff the element's rotation is present, and exactly the two
\* components x, y otherwise; no default rotation is written.  (The position
\* field lies between the quoted text and the layer field of the first line.)
C15_TextRotationGating ==
    ncalls >= 1 =>
        LET t == Ascending(Starts(out, FpTextOpen))
            texts == comp.fp_text_elements
        IN  /\ Len(t) = Len(texts)
            /\ \A k \in 1..Len(t) :
                   LET first == out[t[k]]
                       at == SubSeq(first, 6, Len(first) - 3)
                       x == Display(texts[k].position[1])
                       y == Display(texts[k].position[2])
                   IN  /\ SubSeq(first, Len(first) - 2, Len(first)) =
                              <<" (layer \"", texts[k].layer, "\")">>
                       /\ IsSome(texts[k].rotation) =>
                              at = <<" (at ", x, " ", y, " ",
                                     Display(Unwrap(texts[k].rotation)), ")">>
                       /\ texts[k].rotation = None =>
                              at = <<" (at ", x, " ", y, ")">>

\* a text without rotation next to a text rotated by 90
C15_Witness ==
    /\ ncalls >= 1
    /\ comp.fp_text_elements = <<TextRef, TextValue>>
    /\ Cardinality(Starts(out, FpTextOpen)) = 2
    /\ Len(out[CHOOSE i \in Starts(out, FpTextOpen) : out[i][4] = "REF**"]) = 13

\* C16: the document contains a model block iff model_3d() is present, and
\* then exactly one; the block holds the path followed by the offset, scale
\* and rotate sub-blocks in that order, each with the components of its
\* tuple in x, y, z order.
C16_ModelBlock ==
    ncalls >= 1 =>
        LET M == Starts(out, ModelOpen)
        IN  /\ (M # {}) <=> IsSome(comp.model_3d)
            /\ \A m \in M :
                   LET model == Unwrap(comp.model_3d)
                       o == model.offset
                       sc == model.scale
                       r == model.rotation
                   IN  /\ M = {m}
                       /\ BlockEnd(out, m) = m + 10
                       /\ SubSeq(out, m, m + 10) =
                              << <<"\t(model \"", model.path, "\"">>,
                                 <<"\t\t(offset">>,
                                 <<"\t\t\t(xyz ", Display(o[1]), " ", Display(o[2]),
                                   " ", Display(o[3]), ")">>,
                                 <<"\t\t)">>,
                                 <<"\t\t(scale">>,
                                 <<"\t\t\t(xyz ", Display(sc[1]), " ", Display(sc[2]),
                                   " ", Display(sc[3]), ")">>,
                                 <<"\t\t)">>,
                                 <<"\t\t(rotate">>,
                                 <<"\t\t\t(xyz ", Display(r[1]), " ", Display(r[2]),
                                   " ", Display(r[3]), ")">>,
                                 <<"\t\t)">>,
                                 <<"\t)">> >>

\* a model whose nine components differ within each tuple, in the document
C16_Witness ==
    /\ ncalls >= 1
    /\ IsSome(comp.model_3d)
    /\ Unwrap(comp.model_3d).offset =
           <<F32Lit("0.5"), F32Lit("-0.25"), F32Lit("0.125")>>
    /\ \E m \in Starts(out, ModelOpen) :
           out[m + 8] = <<"\t\t\t(xyz ", "0", " ", "90", " ", "-1", ")">>

\* C17: every document starts with the opening footprint expression carrying
\* footprint_name(), followed by the fixed version, generator,
\* generator_version and layer "F.Cu" lines in that order, and ends with the
\* embedded_fonts no line followed by the closing parenthesis, which occurs
\* once; these lines are the same whatever the other accessors return.
C17_FixedFrame ==
    ncalls >= 1 =>
        LET n == Len(out)
        IN  /\ n >= 8
            /\ SubSeq(out, 1, 5) =
                   << <<"(footprint \"", comp.footprint_name, "\"">>,
                      <<"\t(version 20250401)">>,
                      <<"\t(generator \"custom_pcb_tool\")">>,
                      <<"\t(generator_version \"1.0\")">>,
                      <<"\t(layer \"F.Cu\")">> >>
            /\ SubSeq(out, n - 1, n) = << <<"\t(embedded_fonts no)">>, <<")">> >>
            /\ {i \in 1..n : out[i] = <<")">>} = {n}
            /\ {i \in 1..n : out[i] = <<"\t(embedded_fonts no)">>} = {n - 1}
            /\ Starts(out, "(footprint \"") = {1}

\* the capacitor's name in the frame of a document with pads and a model
C17_Witness ==
    /\ ncalls >= 1
    /\ comp.footprint_name = "C_0402_1005Metric"
    /\ comp.pad_descriptors # <<>>
    /\ IsSome(comp.model_3d)
    /\ out[1] = <<"(footprint \"", "C_0402_1005Metric", "\"">>
    /\ out[Len(out)] = <<")">>

\* C18: the line (duplicate_pad_numbers_are_jumpers no) occurs exactly once
\* in every document, after the descr, tags and attr lines that are there
\* and before the first fp_text block (and every other block).
C18_JumperDirective ==
    ncalls >= 1 =>
        LET J == {i \in 1..Len(out) :
                     out[i] = <<"\t(duplicate_pad_numbers_are_jumpers no)">>}
            Opt == Starts(out, "\t(descr \"") \cup Starts(out, "\t(tags \"")
                       \cup {i \in 1..Len(out) : out[i] = <<"\t(attr smd)">>}
            Blocks == Starts(out, FpTextOpen) \cup Starts(out, FpLineOpen)
                          \cup Starts(out, PadOpen) \cup Starts(out, ModelOpen)
        IN  /\ Cardinality(J) = 1
            /\ \A j \in J :
                   /\ j = 6 + Cardinality(Opt)
                   /\ \A i \in Opt : 5 < i /\ i < j
                   /\ \A b \in Blocks : j < b
                   /\ comp.fp_text_elements # <<>> => out[j + 1][1] = FpTextOpen

\* descr, tags and attr lines all there, the directive on line 9, a text next
C18_Witness ==
    /\ ncalls >= 1
    /\ out[6][1] = "\t(descr \""
    /\ out[7][1] = "\t(tags \""
    /\ out[8] = <<"\t(attr smd)">>
    /\ out[9] = <<"\t(duplicate_pad_numbers_are_jumpers no)">>
    /\ out[10][1] = FpTextOpen

\* C25: within one call the attribute and the pad blocks agree: the line
\* (attr smd) is in the document iff at least one pad block of the document
\* is written with the keyword smd (the descriptor returning the same pad
\* list to both queries of the call).
C25_AttrPadConsistency ==
    ncalls >= 1 =>
        ((\E i \in 1..Len(out) : out[i] = <<"\t(attr smd)">>)
            <=> (\E p \in Starts(out, PadOpen) : out[p][4] = "smd"))

\* a through-hole pad block followed by an smd pad block, and the attribute
C25_Witness ==
    /\ ncalls >= 1
    /\ Len(PadHeads(out)) = 2
    /\ PadHeads(out)[1][4] = "thru_hole"
    /\ PadHeads(out)[2][4] = "smd"
    /\ \E i \in 1..Len(out) : out[i] = <<"\t(attr smd)">>

-----------------------------------------------------------------------------
(* Claims about descriptors at the edges of the input domain (EdgeSpec) *)

\* C21: to_kicad_footprint is total: the call on any descriptor returns a
\* complete document (the five header lines, the jumper
\* directive, every block closed, the four courtyard blocks, the
\* embedded_fonts line and the closing parenthesis), with no error outcome,
\* for empty pad, text and graphic lists, a bounding box with min > max, a
\* negative margin, duplicate identity tokens and unsupported graphics.
C21_Totality ==
    ncalls >= 1 =>
        LET n == Len(out)
            Opens == Starts(out, FpTextOpen) \cup Starts(out, FpLineOpen)
                         \cup Starts(out, PadOpen) \cup Starts(out, ModelOpen)
        IN  /\ n >= 48
            /\ out[1] = <<"(footprint \"", comp.footprint_name, "\"">>
            /\ out[5] = <<"\t(layer \"F.Cu\")">>
            /\ \E j \in 6..n :
                   out[j] = <<"\t(duplicate_pad_numbers_are_jumpers no)">>
            /\ Cardinality(Starts(out, FpLineOpen)) >= 4
            /\ Cardinality(Opens) = Cardinality({i \in 1..n : out[i] = BlockClose})
            /\ out[n - 1] = <<"\t(embedded_fonts no)">>
            /\ out[n] = <<")">>

\* a document for a box with min > max, no pads, two texts with one
\* identity token and a Circle as the only graphic
C21_Witness ==
    /\ ncalls >= 1
    /\ f32_lt(comp.bounding_box.max_x, comp.bounding_box.min_x)
    /\ comp.pad_descriptors = <<>>
    /\ Len(comp.fp_text_elements) = 2
    /\ comp.fp_text_elements[1].uuid = comp.fp_text_elements[2].uuid
    /\ comp.graphic_elements = <<CircleSilk>>
    /\ Cardinality(Starts(out, FpLineOpen)) = 4
    /\ out[Len(out)] = <<")">>

\* the positions of the opening and of the closing parentheses of str
Opening(str) == {j \in 1..Len(str) : SubSeq(str, j, j) = "("}
Closing(str) == {j \in 1..Len(str) : SubSeq(str, j, j) = ")"}

\* <<depth, lowest depth>> after the characters of str, entered at depth d
\* with lowest depth m: "(" opens a level and ")" closes one, so the depth
\* is lowest before str or just after one of its closing parentheses
ScanString(str, d, m) ==
    LET o == Opening(str)
        c == Closing(str)
        After(j) == d + Cardinality({k \in o : k < j}) - Cardinality({k \in c : k <= j})
        low == IF c = {} THEN d
               ELSE LET j == CHOOSE x \in c : \A y \in c : After(x) <= After(y)
                    IN  After(j)
    IN  <<d + Cardinality(o) - Cardinality(c), IF low < m THEN low ELSE m>>

RECURSIVE ScanLine(_, _, _, _)
\* the same over the pieces k.. of a line; the scan of a line ends where
\* the depth has gone below 0
ScanLine(line, k, d, m) ==
    IF k > Len(line) \/ d < 0 THEN <<d, m>>
    ELSE LET r == ScanString(line[k], d, m)
         IN  ScanLine(line, k + 1, r[1], r[2])

RECURSIVE Depths(_, _, _)
\* for each line k.. of doc, entered at depth d: <<the depth after the line,
\* the lowest depth before or after any of its characters>>
Depths(doc, k, d) ==
    IF k > Len(doc) THEN <<>>
    ELSE LET r == ScanLine(doc[k], 1, d, d)
         IN  <<r>> \o Depths(doc, k + 1, r[1])

\* line opens an expression directly inside the footprint
TopLevel(line) == SubSeq(line[1], 1, 2) = "\t("

\* C26: when the descriptor's strings hold no parentheses the document's
\* parentheses are balanced: the depth is at least 1 after every character
\* before the last line, exactly 1 before every top-level expression and
\* after every block, and 0 only after the closing parenthesis that is the last
\* line, for every combination of the optional sections and every number of
\* pads, texts and graphics.
C26_BalancedNesting ==
    ncalls >= 1 =>
        LET n == Len(out)
            D == Depths(out, 1, 0)
        IN  /\ SubSeq(out[1][1], 1, 1) = "("
            /\ D[1] = <<1, 0>>
            /\ \A k \in 2..(n - 1) : D[k][2] >= 1
            /\ \A k \in 2..(n - 1) :
                   /\ TopLevel(out[k]) => D[k - 1][1] = 1
                   /\ out[k] = BlockClose => D[k][1] = 1
            /\ out[n] = <<")">>
            /\ D[n - 1][1] = 1
            /\ D[n] = <<0, 0>>

\* a document with description, tags, attribute, model, two texts, two
\* graphics and two pads, whose blocks go down to depth 3
C26_Witness ==
    /\ ncalls >= 1
    /\ IsSome(comp.description) /\ IsSome(comp.tags) /\ IsSome(comp.model_3d)
    /\ Len(comp.pad_descriptors) = 2
    /\ Len(comp.fp_text_elements) = 2
    /\ Len(comp.graphic_elements) = 2
    /\ \E k \in 1..Len(out) : Depths(out, 1, 0)[k][1] = 3
    /\ Depths(out, 1, 0)[Len(out)][1] = 0

-----------------------------------------------------------------------------
(* Claims about the keyword tables (KeywordSpec) *)

\* the keyword written for each variant
PadTypeKeyword ==
    [SMD |-> "smd", ThroughHole |-> "thru_hole", NPTH |-> "np_thru_hole"]
PadShapeKeyword ==
    [RoundRect |-> "roundrect", Rect |-> "rect", Circle |-> "circle", Oval |-> "oval"]
FpTextTypeKeyword ==
    [Reference |-> "reference", Value |-> "value", User |-> "user"]
LayerTypeKeyword ==
    [SilkScreen |-> "F.SilkS", Courtyard |-> "F.CrtYd", Fabrication |-> "F.Fab",
     Copper |-> "F.Cu", Mask |-> "F.Mask", Paste |-> "F.Paste"]

\* C24: the keywords are fixed: the pad block shows smd / thru_hole /
\* np_thru_hole for the pad's type and roundrect / rect / circle / oval for
\* its shape, the fp_text block reference / value / user for the text's
\* type, and the declared line the layer name F.SilkS / F.CrtYd / F.Fab /
\* F.Cu / F.Mask / F.Paste of its layer; and within each enum no two
\* variants are written with the same keyword.
C24_KeywordMappings ==
    ncalls >= 1 =>
        LET pad == comp.pad_descriptors[1]
            text == comp.fp_text_elements[1]
            line == comp.graphic_elements[1]
            p == CHOOSE i \in Starts(out, PadOpen) : TRUE
            t == CHOOSE i \in Starts(out, FpTextOpen) : TRUE
            l == LineBlocks(out)[1]
            PadKw(ty, sh) ==
                write_detailed_pad([pad EXCEPT !.pad_type = ty, !.shape = sh])[1]
            TextKw(tt) == write_fp_text([text EXCEPT !.text_type = tt])[1][2]
        IN  /\ out[p][4] = PadTypeKeyword[pad.pad_type]
            /\ out[p][6] = PadShapeKeyword[pad.shape]
            /\ out[t][2] = FpTextTypeKeyword[text.text_type]
            /\ l[8] = <<"\t\t(layer \"", LayerTypeKeyword[line.layer], "\")">>
            /\ \A a, b \in PadTypes :
                   PadKw(a, pad.shape)[4] = PadKw(b, pad.shape)[4] => a = b
            /\ \A a, b \in PadShapes :
                   PadKw(pad.pad_type, a)[6] = PadKw(pad.pad_type, b)[6] => a = b
            /\ \A a, b \in FpTextTypes : TextKw(a) = TextKw(b) => a = b
            /\ \A a, b \in LayerTypes :
                   to_kicad_string(a) = to_kicad_string(b) => a = b

\* a document of a non-plated rectangular pad, a value text and a line on
\* the fabrication layer
C24_Witness ==
    /\ ncalls >= 1
    /\ comp.pad_descriptors[1].pad_type = "NPTH"
    /\ comp.pad_descriptors[1].shape = "Rect"
    /\ comp.fp_text_elements[1].text_type = "Value"
    /\ comp.graphic_elements[1].layer = "Fabrication"
    /\ Cardinality(Starts(out, FpLineOpen)) = 5
    /\ \E i \in Starts(out, PadOpen) : out[i][4] = "np_thru_hole" /\ out[i][6] = "rect"

-----------------------------------------------------------------------------
(* Claims about concurrent calls (ConcurrentSpec) *)

\* doc with the identity stamps of its last four fp_line blocks, the
\* courtyard's, blanked
Unstamped(doc) ==
    LET g == Ascending(Starts(doc, FpLineOpen))
        n == Len(g)
        S == {g[k] + 8 : k \in (n - 3)..n}
    IN  [i \in 1..Len(doc) |->
            IF i \in S THEN <<"\t\t(tstamp \"", "", "\")">> ELSE doc[i]]

\* the identity stamps of the last four fp_line blocks of doc
CourtyardStamps(doc) ==
    LET B == LineBlocks(doc)
        n == Len(B)
    IN  [k \in 1..4 |-> B[n - 4 + k][9][2]]

\* under every interleaving a call returns a document of its own descriptor
\* and of nothing else: the document to_kicad_footprint gives for that
\* descriptor, with four tokens of the call's own on the courtyard lines,
\* in the order they were drawn, none of them on a line of the other call
OwnDocumentOnly ==
    \A t \in DOMAIN threads :
        threads[t].pc = "done" =>
            LET mine == CourtyardStamps(threads[t].output)
            IN  /\ Unstamped(threads[t].output)
                       = Unstamped(to_kicad_footprint(threads[t].component, 0))
                /\ \A k \in 1..3 :
                       \E i \in 1..8, j \in 1..8 :
                           /\ i < j
                           /\ mine[k] = Uuid_to_string(i)
                           /\ mine[k + 1] = Uuid_to_string(j)
                /\ \A u \in DOMAIN threads :
                       (u # t /\ threads[u].pc = "done") =>
                           \A k \in 1..4, l \in 1..4 :
                               mine[k] # CourtyardStamps(threads[u].output)[l]

\* the draws of the two calls alternate: the first call finished with the
\* first, third, fifth and seventh token
InterleavedDraws ==
    /\ threads # <<>>
    /\ threads[1].pc = "done"
    /\ threads[2].pc = "done"
    /\ CourtyardStamps(threads[1].output)
           = [k \in 1..4 |-> Uuid_to_string(2 * k - 1)]

\* C22: when two independent descriptor instances are serialized
\* concurrently, under every interleaving of the two traversals each call
\* returns the same document it would return when run alone (the document of
\* a single call made from the same initial state).
C22_ConcurrentSerialization ==
    \A t \in DOMAIN threads :
        threads[t].pc = "done" =>
            threads[t].output = to_kicad_footprint(threads[t].component, 0)

-----------------------------------------------------------------------------
(* Claims about calls interleaved with upstream changes (UpstreamSpec) *)

\* doc shows the descriptor c and nothing else: its name, one fp_text block
\* per text and one pad block per pad of c in order, one fp_line block per
\* declared Line of c, and the four courtyard lines of c's bounding box
\* grown by c's margin, stamped with the four tokens drawn after rng
Renders(doc, c, rng) ==
    LET t == Ascending(Starts(doc, FpTextOpen))
        p == Ascending(Starts(doc, PadOpen))
        B == LineBlocks(doc)
        n == Len(B)
        declared == SelectSeq(c.graphic_elements, IsLine)
        x0 == Display(f32_sub(c.bounding_box.min_x, c.courtyard_margin))
        y0 == Display(f32_sub(c.bounding_box.min_y, c.courtyard_margin))
        x1 == Display(f32_add(c.bounding_box.max_x, c.courtyard_margin))
        y1 == Display(f32_add(c.bounding_box.max_y, c.courtyard_margin))
        corners == << <<x0, y0>>, <<x1, y0>>, <<x1, y1>>, <<x0, y1>>, <<x0, y0>> >>
    IN  /\ doc[1] = <<"(footprint \"", c.footprint_name, "\"">>
        /\ [k \in 1..Len(t) |-> <<doc[t[k]][4], doc[t[k] + 2][2]>>]
               = [k \in 1..Len(c.fp_text_elements) |->
                     <<c.fp_text_elements[k].text, c.fp_text_elements[k].uuid>>]
        /\ [k \in 1..Len(p) |-> <<doc[p[k]][2], doc[BlockEnd(doc, p[k]) - 1][2]>>]
               = [k \in 1..Len(c.pad_descriptors) |->
                     <<c.pad_descriptors[k].number, c.pad_descriptors[k].uuid>>]
        /\ n = Len(declared) + 4
        /\ \A k \in 1..Len(declared) : B[k][9][2] = declared[k].uuid
        /\ \A k \in 1..4 :
               /\ B[n - 4 + k][2] =
                      <<"\t\t(start ", corners[k][1], " ", corners[k][2], ")">>
               /\ B[n - 4 + k][3] =
                      <<"\t\t(end ", corners[k + 1][1], " ", corners[k + 1][2], ")">>
               /\ B[n - 4 + k][9][2] = Uuid_to_string(rng + k)

\* every call returns a document that shows the descriptor as it is at the
\* call, and the only stamps it has in common with the document returned
\* before it are stamps of the descriptor's own elements (nothing is cached)
RecomputedEachCall ==
    [][ncalls' = ncalls + 1 =>
          /\ Renders(out', comp, uuid_state)
          /\ \A i \in Starts(out', "\t\t(tstamp \"") :
                 \A j \in Starts(out, "\t\t(tstamp \"") :
                     out'[i][2] = out[j][2] =>
                         \E e \in {comp.pad_descriptors[k] :
                                       k \in 1..Len(comp.pad_descriptors)}
                                \cup {comp.fp_text_elements[k] :
                                          k \in 1..Len(comp.fp_text_elements)}
                                \cup {comp.graphic_elements[k] :
                                          k \in 1..Len(comp.graphic_elements)} :
                             e.uuid = out'[i][2]]_vars

\* C19: in any sequence of to_kicad_footprint calls interleaved with upstream
\* changes of the descriptor, each returned document is a function only of
\* the descriptor state at that call: two calls that both show the
\* descriptor as it is now (whatever changed in between was changed back, or
\* nothing changed) have returned the same document.
C19_FunctionOfDescriptorState ==
    (/\ ncalls >= 2
     /\ Renders(prev, comp, uuid_state - 8)
     /\ Renders(out, comp, uuid_state - 4)) => out = prev

-----------------------------------------------------------------------------
(* Claims about descriptors with their own generate_courtyard (ImplSpec) *)

\* C13: the courtyard the serializer renders is always derived from the
\* descriptor's bounding_box() and courtyard_margin() (0.25 unless the
\* descriptor overrides courtyard_margin); a descriptor cannot supply a
\* courtyard by any other route: the four courtyard blocks of every document
\* trace the bounding box grown by the margin.
C13_CourtyardOnlyFromBoxAndMargin ==
    ncalls >= 1 =>
        LET B == LineBlocks(out)
            n == Len(B)
            x0 == Display(f32_sub(comp.bounding_box.min_x, comp.courtyard_margin))
            y0 == Display(f32_sub(comp.bounding_box.min_y, comp.courtyard_margin))
            x1 == Display(f32_add(comp.bounding_box.max_x, comp.courtyard_margin))
            y1 == Display(f32_add(comp.bounding_box.max_y, comp.courtyard_margin))
        IN  /\ n >= 4
            /\ B[n - 3][2] = <<"\t\t(start ", x0, " ", y0, ")">>
            /\ B[n - 3][3] = <<"\t\t(end ", x1, " ", y0, ")">>
            /\ B[n - 1][2] = <<"\t\t(start ", x1, " ", y1, ")">>
            /\ B[n - 1][3] = <<"\t\t(end ", x0, " ", y1, ")">>

\* C20: the serializer never mutates the model: every call of
\* to_kicad_footprint and every call of Courtyard::to_graphic_elements leaves
\* the descriptor (its bounding box, pads, texts, graphics and model) and
\* the courtyard with its bounds as they were.
C20_SerializerNeverMutates ==
    [][(ncalls' # ncalls \/ tcalls' # tcalls) =>
          /\ comp' = comp
          /\ cy' = cy
          /\ cy_args' = cy_args]_vars

\* both operations have run on a descriptor with a pad, a text and a model
\* and on its courtyard
C20_Witness ==
    /\ ncalls >= 1
    /\ tcalls >= 1
    /\ comp.pad_descriptors # <<>>
    /\ comp.fp_text_elements # <<>>
    /\ IsSome(comp.model_3d)
    /\ cy = Some(generate_courtyard(comp))
    /\ Len(elems) = 4

\* c with other drill sizes and tenting on every pad
OtherPads(c, drill, tenting) ==
    [i \in 1..Len(c.pad_descriptors) |->
        [c.pad_descriptors[i] EXCEPT !.drill_size = drill, !.tenting = tenting]]

\* descriptors that differ from c in one of is_smt, is_electrical,
\* is_passive, terminal_count, functional_type, library_name, the pads'
\* drill_size and the pads' tenting, or in all of them
DifferingInUnused(c) ==
    {[c EXCEPT !.is_smt = ~c.is_smt],
     [c EXCEPT !.is_electrical = ~c.is_electrical],
     [c EXCEPT !.is_passive = ~c.is_passive],
     [c EXCEPT !.terminal_count = c.terminal_count + 1],
     [c EXCEPT !.functional_type = <<"Capacitor", "100n">>],
     [c EXCEPT !.library_name = "Other_Library"],
     [c EXCEPT !.pad_descriptors =
                   [i \in 1..Len(c.pad_descriptors) |->
                       [c.pad_descriptors[i] EXCEPT !.drill_size = Some(F32Lit("2"))]]],
     [c EXCEPT !.pad_descriptors =
                   [i \in 1..Len(c.pad_descriptors) |->
                       [c.pad_descriptors[i] EXCEPT
                           !.tenting = TentingSettings("Partial", "Full")]]],
     [c EXCEPT !.is_smt = ~c.is_smt, !.is_electrical = ~c.is_electrical,
               !.is_passive = ~c.is_passive, !.terminal_count = 0,
               !.functional_type = <<"Capacitor", "100n">>,
               !.library_name = "Other_Library",
               !.pad_descriptors =
                   OtherPads(c, Some(F32Lit("2")), TentingSettings("Partial", "Full"))]}

\* the generator states in which the accessors of a descriptor like c
\* return the tokens they return to the call being made: the state the call
\* starts in, and when c keeps its tokens the state it ends in as well
AgreeingStates(c) ==
    IF c.fresh_tokens THEN {uuid_state} ELSE {uuid_state, uuid_state'}

\* the accessors the serializer never calls have no influence: a descriptor
\* that differs from the serialized one only in them, and has the same
\* generate_courtyard, gives the same document up to the courtyard stamps
UnusedDataIgnored ==
    [][ncalls' = ncalls + 1 =>
          \A other \in DifferingInUnused(comp), rng \in AgreeingStates(comp) :
              Unstamped(to_kicad_footprint(other, rng)) = Unstamped(out')]_vars

\* C27: two descriptors that agree on footprint_name, description, tags,
\* fp_text_elements, graphic_elements, bounding_box, courtyard_margin,
\* model_3d and on each pad's number, type, shape, position, size, layers,
\* roundrect ratio and identity token produce the same document apart from
\* the courtyard identity stamps, whatever else they differ in.
C27_NonInterference ==
    [][ncalls' = ncalls + 1 =>
          \A c \in DifferingInUnused(comp), impl \in CourtyardImpls,
             rng \in AgreeingStates(comp) :
              LET other == [c EXCEPT !.courtyard_impl = impl]
              IN  Unstamped(to_kicad_footprint(other, rng)) = Unstamped(out')]_vars

\* C23: the document of the two-pad 0805 resistor of examples/resistor.rs
\* has a header naming R_0805_2012Metric, exactly one (attr smd) line,
\* exactly two pad blocks, numbered "1" then "2", and exactly four fp_line
\* blocks, which trace the rectangle (-1.25, -0.875) - (1.25, 0.875).
C23_EndToEndResistor ==
    (ncalls >= 1 /\ comp = SMTResistor0805) =>
        /\ out[1] = <<"(footprint \"", "R_0805_2012Metric", "\"">>
        /\ Cardinality({i \in 1..Len(out) : out[i] = <<"\t(attr smd)">>}) = 1
        /\ PadHeads(out) =
              << <<"\t(pad \"", "1", "\" ", "smd", " ", "roundrect">>,
                 <<"\t(pad \"", "2", "\" ", "smd", " ", "roundrect">> >>
        /\ LineEnds(out) =
              << << <<"\t\t(start ", "-1.25", " ", "-0.875", ")">>,
                    <<"\t\t(end ", "1.25", " ", "-0.875", ")">> >>,
                 << <<"\t\t(start ", "1.25", " ", "-0.875", ")">>,
                    <<"\t\t(end ", "1.25", " ", "0.875", ")">> >>,
                 << <<"\t\t(start ", "1.25", " ", "0.875", ")">>,
                    <<"\t\t(end ", "-1.25", " ", "0.875", ")">> >>,
                 << <<"\t\t(start ", "-1.25", " ", "0.875", ")">>,
                    <<"\t\t(end ", "-1.25", " ", "-0.875", ")">> >> >>

\* the resistor has been serialized: two pad blocks and four fp_line blocks
C23_Witness ==
    /\ ncalls >= 1
    /\ comp = SMTResistor0805
    /\ Cardinality(Starts(out, PadOpen)) = 2
    /\ Cardinality(Starts(out, FpLineOpen)) = 4
    /\ out[Len(out)] = <<")">>

-----------------------------------------------------------------------------
(* Claims about the stack renderer (StackSpec) *)

RECURSIVE ThicknessSum(_, _)
\* the sum of the thicknesses of the first n of layers
ThicknessSum(layers, n) ==
    IF n = 0 THEN F32Lit("0")
    ELSE f32_add(ThicknessSum(layers, n - 1), layers[n].layer_type.thickness)

\* C29: add_layer appends the layer at the end of the stack; in a renderer
\* made by new() it overwrites the layer's position_y with the sum of the
\* thicknesses of the layers already in the stack when there are any (the
\* first layer keeps the position_y it was given), in a renderer made by
\* new_manual() it never changes position_y. After every call layer_count
\* is the number of add_layer calls since the last clear and total_height
\* the sum of the thicknesses added since then. (add_layers makes one
\* add_layer call for each of its layers, in order.)
C29_StackAutoPositioning ==
    [][/\ layer_count(renderer') = Len(stack_log'.added)
       /\ total_height(renderer') = ThicknessSum(stack_log'.added, Len(stack_log'.added))
       /\ Len(stack_log'.added) > Len(stack_log.added) =>
              LET n == Len(renderer.layers)
                  m == Len(stack_log'.added)
              IN  /\ Len(renderer'.layers) = m
                  /\ SubSeq(renderer'.layers, 1, n) = renderer.layers
                  /\ \A j \in (n + 1)..m :
                         LET given == stack_log'.added[j]
                         IN  renderer'.layers[j] =
                                 [given EXCEPT !.position_y =
                                     IF renderer.auto_position /\ j > 1
                                     THEN ThicknessSum(renderer'.layers, j - 1)
                                     ELSE given.position_y]]_vars

\* an auto-positioning renderer with three layers: the first where it was
\* given, the third moved from where it was given onto the first two
C29_Witness ==
    /\ renderer.auto_position
    /\ ~stack_log.centered
    /\ Len(renderer.layers) = 3
    /\ renderer.layers[1].position_y = F32Lit("0.25")
    /\ renderer.layers[3].position_y = ThicknessSum(renderer.layers, 2)
    /\ renderer.layers[3].position_y # stack_log.added[3].position_y

\* the faces of layer i as create_layer_mesh draws them, and the gap
\* between two heights
Bottom(layers, i) == create_layer_mesh(layers[i]).y_min
Top(layers, i) == create_layer_mesh(layers[i]).y_max
Gap(a, b) == LET g == f32_sub(a, b) IN <<Abs(g[1]), g[2]>>

\* center_stack left the order, the thicknesses and the count of the layers
\* as they were added, and a second center_stack changes nothing
CenteredSameLayers ==
    /\ Len(renderer.layers) = Len(stack_log.added)
    /\ \A i \in 1..Len(renderer.layers) :
           [renderer.layers[i] EXCEPT !.position_y = F32Lit("0")]
               = [stack_log.added[i] EXCEPT !.position_y = F32Lit("0")]
    /\ center_stack(renderer) = renderer

\* C30: after center_stack, with H the total thickness, layer i has
\* position_y = -H/2 + (sum of the thicknesses of the layers before i) +
\* thickness_i/2, consecutive layers touch without gap or overlap, the
\* bottom face of the first layer is at -H/2 and the top face of the last
\* at +H/2; order, thicknesses and count of the layers are unchanged and a
\* second center_stack changes nothing.
C30_CenterStack ==
    (stack_log.centered /\ renderer.layers # <<>>) =>
        LET L == renderer.layers
            n == Len(L)
            half == f32_div_2(total_height(renderer))
        IN  /\ \A i \in 1..n :
                   L[i].position_y =
                       f32_add(f32_add(f32_neg(half), ThicknessSum(L, i - 1)),
                               f32_div_2(L[i].layer_type.thickness))
            /\ \A i \in 1..(n - 1) : Top(L, i) = Bottom(L, i + 1)
            /\ Bottom(L, 1) = f32_neg(half)
            /\ Top(L, n) = half
            /\ CenteredSameLayers

RECURSIVE Running(_, _, _)
\* -(H/2) + thickness_1 + ... + thickness_k, added in f32 from left to right
Running(layers, k, start) ==
    IF k = 0 THEN start
    ELSE f32_add(Running(layers, k - 1, start), layers[k].layer_type.thickness)

\* C30, amended: after center_stack, with H = total_height() and n layers,
\* layer i has position_y = -(H/2) + thickness_1 + ... + thickness_(i-1) +
\* thickness_i/2, the additions made in f32 from left to right; consecutive
\* layers touch, the bottom face of the first layer is at -H/2 and the top
\* face of the last at +H/2 only up to the rounding of these additions,
\* each within n * H * 2^-23; order, thicknesses and count of the layers
\* are unchanged and a second center_stack changes nothing.
C30_CenterStackRounded ==
    (stack_log.centered /\ renderer.layers # <<>>) =>
        LET L == renderer.layers
            n == Len(L)
            H == total_height(renderer)
            half == f32_div_2(H)
            tol == F32Normalize(1, n * H[1], H[2] - 23)
            Within(a, b) == ~f32_lt(tol, Gap(a, b))
        IN  /\ \A i \in 1..n :
                   L[i].position_y =
                       f32_add(Running(L, i - 1, f32_neg(half)),
                               f32_div_2(L[i].layer_type.thickness))
            /\ \A i \in 1..(n - 1) : Within(Top(L, i), Bottom(L, i + 1))
            /\ Within(Bottom(L, 1), f32_neg(half))
            /\ Within(Top(L, n), half)
            /\ CenteredSameLayers

\* a centred stack of three layers whose first two faces do not meet
\* exactly and whose top face is not exactly at H/2
C30_Witness ==
    /\ stack_log.centered
    /\ Len(renderer.layers) = 3
    /\ Top(renderer.layers, 1) # Bottom(renderer.layers, 2)
    /\ Top(renderer.layers, 3) # f32_div_2(total_height(renderer))
    /\ center_stack(renderer) = renderer

-----------------------------------------------------------------------------
(* Claims about the courtyard (specification CourtyardSpec) *)

\* C4: Courtyard::new(bbox, margin) has bounds exactly (min_x - margin,
\* min_y - margin, max_x + margin, max_y + margin), stores the margin and is
\* on the Courtyard layer, with no swapping, clamping or rejection; the box
\* (-0.5,-0.25,0.5,0.25) with margin 0.41 gives (-0.91,-0.66,0.91,0.66).
C4_CourtyardArithmetic ==
    IsSome(cy) =>
        LET a == Unwrap(cy_args)
            c == Unwrap(cy)
        IN  /\ c.bounds = Rectangle(f32_sub(a.bounds.min_x, a.margin),
                                    f32_sub(a.bounds.min_y, a.margin),
                                    f32_add(a.bounds.max_x, a.margin),
                                    f32_add(a.bounds.max_y, a.margin))
            /\ c.margin = a.margin
            /\ c.layer = "Courtyard"
            /\ (a.bounds = CapacitorBox /\ a.margin = F32Lit("0.41")) =>
                   c.bounds = Rectangle(F32Lit("-0.91"), F32Lit("-0.66"),
                                        F32Lit("0.91"), F32Lit("0.66"))

\* C5: to_graphic_elements returns exactly 4 elements, all of the Line
\* variant, for every courtyard rectangle, zero-area and inverted included.
C5_CourtyardCardinality ==
    tcalls >= 1 =>
        /\ Len(elems) = 4
        /\ \A i \in 1..Len(elems) : IsLine(elems[i])

\* the rendered courtyard has no width and is inverted in y
C5_Witness ==
    /\ tcalls >= 1
    /\ Unwrap(cy).bounds.min_x = Unwrap(cy).bounds.max_x
    /\ f32_lt(Unwrap(cy).bounds.max_y, Unwrap(cy).bounds.min_y)

\* C6: the four lines are, in this order, (min_x,min_y)->(max_x,min_y),
\* (max_x,min_y)->(max_x,max_y), (max_x,max_y)->(min_x,max_y),
\* (min_x,max_y)->(min_x,min_y) of the courtyard bounds, each with a Solid
\* stroke of width 0.05 on the Courtyard layer.
C6_CourtyardEdgeOrder ==
    tcalls >= 1 =>
        LET b == Unwrap(cy).bounds
        IN  /\ Len(elems) = 4
            /\ elems[1].element_type = Line(<<b.min_x, b.min_y>>, <<b.max_x, b.min_y>>)
            /\ elems[2].element_type = Line(<<b.max_x, b.min_y>>, <<b.max_x, b.max_y>>)
            /\ elems[3].element_type = Line(<<b.max_x, b.max_y>>, <<b.min_x, b.max_y>>)
            /\ elems[4].element_type = Line(<<b.min_x, b.max_y>>, <<b.min_x, b.min_y>>)
            /\ \A i \in 1..4 :
                   /\ elems[i].stroke = Stroke(F32Lit("0.05"), "Solid")
                   /\ elems[i].layer = "Courtyard"

\* a rendered courtyard whose four corners differ
C6_Witness ==
    /\ tcalls >= 1
    /\ f32_lt(Unwrap(cy).bounds.min_x, Unwrap(cy).bounds.max_x)
    /\ f32_lt(Unwrap(cy).bounds.min_y, Unwrap(cy).bounds.max_y)
    /\ Len(elems) = 4

\* C28: the four lines returned by to_graphic_elements form a closed loop:
\* the end point of each line is the start point of the next, and the end
\* point of the fourth is the start point of the first, for every courtyard
\* rectangle, inverted and zero-area ones included.
C28_ClosedCourtyardLoop ==
    tcalls >= 1 =>
        /\ Len(elems) = 4
        /\ \A i \in 1..4 :
               elems[i].element_type.end = elems[(i % 4) + 1].element_type.start

\* the rendered courtyard is inverted in x and in y, and its fourth line
\* comes back to the start of the first
C28_Witness ==
    /\ tcalls >= 1
    /\ f32_lt(Unwrap(cy).bounds.max_x, Unwrap(cy).bounds.min_x)
    /\ f32_lt(Unwrap(cy).bounds.max_y, Unwrap(cy).bounds.min_y)
    /\ Len(elems) = 4
    /\ elems[4].element_type.end = elems[1].element_type.start
    /\ elems[1].element_type.start # elems[3].element_type.start

\* C7: every call of to_graphic_elements gives each of the four lines a
\* newly generated token: the four tokens of one call are pairwise distinct
\* and differ from the tokens of every earlier call on the same courtyard.
C7_FreshCourtyardTokens ==
    tcalls >= 1 =>
        /\ Cardinality(Tokens(elems)) = 4
        /\ Tokens(elems) \cap issued = {}

\* a second call on the same courtyard, after a first that issued tokens
C7_Witness ==
    /\ tcalls >= 2
    /\ issued # {}
    /\ Len(elems) = 4

=============================================================================
